---------------------------- MODULE Spec2Model ----------------------------
(***************************************************************************)
(* A model of the RAG pipeline of kevinten-ai/ai-rag-pipeline:             *)
(*   - PipelineOrchestrator (src/src/pipeline-orchestrator.js),            *)
(*   - CloneStage, CleanStage, UploadStage (src/src/stages/clean-stage.js),*)
(*   - the cache layer MongoDBCache (src/src/services/mongodb-cache.js),   *)
(*   - the parts of OpenAIService the stages rely on                       *)
(*     (src/src/services/feishu-client.js, second half).                   *)
(*                                                                         *)
(* The remote services (document source, document extractor, AI provider,  *)
(* search index, MongoDB server) are the environment: each call to one of  *)
(* them either succeeds or fails, chosen nondeterministically.             *)
(***************************************************************************)
EXTENDS Integers, Sequences, FiniteSets, TLC

(***************************************************************************)
(* Bounds of the model.                                                    *)
(***************************************************************************)
MaxTime == 2          \* the clock runs over 1..MaxTime
MaxRuns == 1          \* executePipeline calls per behaviour
MaxCalls == 2         \* executeStage calls per behaviour
MaxFaults == 1        \* failing or empty answers of the collaborators per behaviour
MaxFetch == 3         \* documents handed to one fetchDocumentContents call
MaxSentences == 3     \* sentences in a content handed to the splitting pass
MaxSentenceLength == 3    \* characters in one sentence, terminator not counted
MaxThreshold == 12    \* largest documentSplitSize tried by the splitting pass
MaxCacheOps == 3      \* operations on the cache collection per behaviour
BatchSize == 2        \* the batchSize option handed to every stage
DocumentSplitSize == 6    \* config.performance.documentSplitSize (maxTokens)

DocOrder == <<"d1", "d2">>   \* the documents of the source folder tree
Docs == {DocOrder[i] : i \in 1..Len(DocOrder)}
StageNames == {"clone", "clean", "upload"}

(***************************************************************************)
(* Program constants.                                                      *)
(***************************************************************************)
EmbeddingWidth == 1536       \* new Array(1536).fill(0)

(***************************************************************************)
(* Generic helpers.                                                        *)
(***************************************************************************)
Range(s) == {s[i] : i \in 1..Len(s)}

\* flattening a sequence of sequences (splitDocuments.push(...docs))
RECURSIVE Flatten(_)
Flatten(ss) == IF ss = <<>> THEN <<>> ELSE Head(ss) \o Flatten(Tail(ss))

RECURSIVE SumSeq(_)
SumSeq(s) == IF s = <<>> THEN 0 ELSE Head(s) + SumSeq(Tail(s))

Max2(a, b) == IF a >= b THEN a ELSE b
Min2(a, b) == IF a <= b THEN a ELSE b

\* chunkArray(array, size): consecutive slices of at most `size` elements
chunkArray(array, size) ==
  [k \in 1..((Len(array) + size - 1) \div size) |->
     SubSeq(array, (k - 1) * size + 1, Min2(k * size, Len(array)))]

(***************************************************************************)
(* Timestamps.  A raw timestamp field is an integer:                       *)
(*   Undefined  the field is missing (undefined, falsy),                   *)
(*   Garbage    a string that Date cannot parse (truthy),                  *)
(*   t >= 1     a parseable time.                                          *)
(* new Date(raw) never throws: it yields Invalid Date (NaN) for the first  *)
(* two.  Every relational comparison with NaN is false.                    *)
(***************************************************************************)
Undefined == 0
Garbage == -1
NaN == -2
Times == 1..MaxTime
RawTimes == {Undefined, Garbage} \cup Times

\* a || b on raw timestamp fields
OrElse(a, b) == IF a = Undefined THEN b ELSE a

\* new Date(raw).getTime()
NewDate(raw) == IF raw >= 1 THEN raw ELSE NaN

\* a > b on two Date objects
DateGreater(a, b) == a # NaN /\ b # NaN /\ a > b

(***************************************************************************)
(* Documents.                                                              *)
(*   id              [base, part]: part = 0 for `<id>`, n for              *)
(*                   `<id>_part<n>`                                        *)
(*   content         the text, as the sequence of its sentences, each      *)
(*                   given by its length in characters; <<>> is ''         *)
(*   modified_time   the top-level modified_time field (raw timestamp)     *)
(*   ai              "none": no AI-derived fields; "real": fields produced *)
(*                   by the AI provider; "degraded": ai_title = title,     *)
(*                   summary '', keywords [], category '其他'              *)
(*   error           the document carries an `error` field                 *)
(*   cached          the `cached` flag: "unset", "true" or "false"         *)
(*   embedding       NoEmbedding, RealEmbedding or ZeroVector              *)
(*   embeddingError  the document carries an `embeddingError` field        *)
(***************************************************************************)
DocId(d) == [base |-> d, part |-> 0]
PartId(id, n) == [base |-> id.base, part |-> n]

NoEmbedding == [kind |-> "none", width |-> 0]
RealEmbedding == [kind |-> "real", width |-> EmbeddingWidth]
ZeroVector == [kind |-> "zero", width |-> EmbeddingWidth]

\* what the source holds for each document of the tree
Text(d) == IF d = "d1" THEN <<1>> ELSE <<2, 2>>

\* a file object as listed by FeishuClient.getDocuments
FileRef(d, mt) == [id |-> DocId(d), modified_time |-> mt, updatedAt |-> Undefined]

\* the canonical document built by FeishuDocumentProcessor.processDocDocument:
\* {id, title, content, metadata, raw}; modified_time is kept inside metadata
\* only, so the top-level field is missing
processDocDocument(document, content) ==
  [id |-> document.id, content |-> content, modified_time |-> Undefined,
   ai |-> "none", error |-> FALSE, cached |-> "unset",
   embedding |-> NoEmbedding, embeddingError |-> FALSE]

(***************************************************************************)
(* The cache layer (MongoDBCache).  The collection is a function from      *)
(* document ids to entries (unique index on documentId).  `up` tells       *)
(* whether the MongoDB server can be reached during the call.              *)
(***************************************************************************)
NoAIResults == [kind |-> "undefined", error |-> FALSE]

NullEntry ==
  [aiResults |-> NoAIResults, embedding |-> NoEmbedding,
   lastModified |-> Undefined, updatedAt |-> Undefined,
   originalEmbedding |-> NoEmbedding]

\* a cache read that takes no notice of the server being unreachable
ReadThrough(store, up, documentId) ==
  IF documentId \in DOMAIN store
  THEN [found |-> TRUE, entry |-> store[documentId]]
  ELSE [found |-> FALSE, entry |-> NullEntry]

\* getCachedDocument: findOne({documentId}); null on any error (fails open)
getCachedDocument(store, up, documentId) ==
  IF up /\ documentId \in DOMAIN store
  THEN [found |-> TRUE, entry |-> store[documentId]]
  ELSE [found |-> FALSE, entry |-> NullEntry]

\* the replacement document written by cacheDocument / batchCacheDocuments:
\* documentId, hash, type, originalDocument, processedContent, aiResults,
\* metadata, createdAt, updatedAt, lastModified.  It has no top-level
\* embedding field; the vector only survives inside originalDocument.
CacheEntry(document, aiResults, now_) ==
  [aiResults |-> aiResults, embedding |-> NoEmbedding,
   lastModified |-> OrElse(document.modified_time, now_), updatedAt |-> now_,
   originalEmbedding |-> document.embedding]

\* updateAIResults: updateOne({documentId}, {$set: {aiResults, updatedAt}}),
\* no upsert: a missing entry stays missing
updateAIResults(store, documentId, aiResults, now_) ==
  IF documentId \in DOMAIN store
  THEN [store EXCEPT ![documentId].aiResults = aiResults,
                     ![documentId].updatedAt = now_]
  ELSE store

\* batchCacheDocuments: bulkWrite of replaceOne(..., upsert: true)
RECURSIVE batchCacheDocuments(_, _, _)
batchCacheDocuments(store, documentBatch, now_) ==
  IF documentBatch = <<>> THEN store
  ELSE LET op == Head(documentBatch)
           e == CacheEntry(op.document, op.aiResults, now_)
       IN batchCacheDocuments((op.document.id :> e) @@ store,
                              Tail(documentBatch), now_)

(***************************************************************************)
(* Rates are exact fractions; count / total, and 0 when total is 0.        *)
(***************************************************************************)
Rate(count, total) ==
  IF total > 0 THEN [num |-> count, den |-> total] ELSE [num |-> 0, den |-> 1]

(***************************************************************************)
(* Stage results.  Every stage result and every failure record of the      *)
(* orchestrator is a record of one shape; hasStats / hasDocuments tell     *)
(* whether the JavaScript object has the `stats` / `documents` property.   *)
(***************************************************************************)
NoStats == [totalDocuments |-> 0]

StageResult(name, stats, hasDocuments, documents, errors) ==
  [stage |-> name, success |-> TRUE, error |-> "",
   hasStats |-> TRUE, stats |-> stats,
   hasDocuments |-> hasDocuments, documents |-> documents, errors |-> errors]

(***************************************************************************)
(* CloneStage (Collection).                                                *)
(***************************************************************************)
CloneResetStats ==
  [totalDocuments |-> 0, newDocuments |-> 0, updatedDocuments |-> 0,
   cachedDocuments |-> 0, failedDocuments |-> 0, processedDocuments |-> <<>>]

\* a Collection that never consults the cache
AlwaysNew(document, store, up, forceFullUpdate) == "new"

\* isDocumentModified: new Date never throws, so the catch is dead code
isDocumentModified(document, cached) ==
  LET docModified == NewDate(OrElse(document.modified_time, document.updatedAt))
      cachedModified == NewDate(OrElse(cached.lastModified, cached.updatedAt))
  IN DateGreater(docModified, cachedModified)

\* the branch processDocumentsIncremental takes for one document
CloneDecision(document, store, up, forceFullUpdate) ==
  LET cached == getCachedDocument(store, up, document.id)
      isCached == cached.found
  IN IF ~forceFullUpdate /\ isCached
     THEN IF ~isDocumentModified(document, cached.entry) THEN "cached" ELSE "updated"
     ELSE IF isCached THEN "updated" ELSE "new"

\* processDocumentsIncremental: the documents to fetch, and the counters
processDocumentsIncremental(stats, documents, forceFullUpdate, store, up) ==
  LET decision(i) == CloneDecision(documents[i], store, up, forceFullUpdate)
      n(kind) == Cardinality({i \in 1..Len(documents) : decision(i) = kind})
      Selected(document) ==
        CloneDecision(document, store, up, forceFullUpdate) # "cached"
  IN [documentsToProcess |-> SelectSeq(documents, Selected),
      stats |-> [stats EXCEPT !.newDocuments = @ + n("new"),
                              !.updatedDocuments = @ + n("updated"),
                              !.cachedDocuments = @ + n("cached")]]

\* What the environment does to one document that is fetched:
\*   "fetchFails"    getDocumentContent rejects
\*   "extractFails"  the extractor throws on the fetched content
\*   "ok"            content fetched and extracted
\*   "empty"         content fetched, the extracted text is ''
FetchOutcomes == {"fetchFails", "extractFails", "ok", "empty"}

\* the entry fetchDocumentContents pushes on stats.processedDocuments
ProcessedEntry(document, outcome) ==
  IF outcome \in {"ok", "empty"}
  THEN [document |-> processDocDocument(document,
                       IF outcome = "ok" THEN Text(document.id.base) ELSE <<>>),
        success |-> TRUE, error |-> ""]
  ELSE [document |-> document, success |-> FALSE, error |-> outcome]

\* fetchDocumentContents(documents, batchSize); outcome[d] is the
\* environment's answer for document d
fetchDocumentContents(stats, documents, outcome) ==
  LET entries == [i \in 1..Len(documents) |->
                    ProcessedEntry(documents[i], outcome[documents[i].id])]
      failures == Cardinality({i \in 1..Len(documents) : ~entries[i].success})
  IN [stats EXCEPT !.processedDocuments = @ \o entries,
                   !.failedDocuments = @ + failures]

IsSuccess(p) == p.success
IsFailure(p) == ~p.success

CloneGetResults(stats) ==
  LET ok == SelectSeq(stats.processedDocuments, IsSuccess)
      bad == SelectSeq(stats.processedDocuments, IsFailure)
  IN StageResult("clone",
       [totalDocuments |-> stats.totalDocuments,
        newDocuments |-> stats.newDocuments,
        updatedDocuments |-> stats.updatedDocuments,
        cachedDocuments |-> stats.cachedDocuments,
        failedDocuments |-> stats.failedDocuments,
        successCount |-> Len(ok),
        cacheHitRate |-> Rate(stats.cachedDocuments, stats.totalDocuments)],
       TRUE,
       [i \in 1..Len(ok) |-> ok[i].document],
       [i \in 1..Len(bad) |-> [documentId |-> bad[i].document.id,
                                error |-> bad[i].error]])

\* CloneStage.execute.  listing: the files the folder tree enumeration
\* returns (<<>> when it fails: the folder is skipped); outcome: see above.
\* Yields the new this.stats, the stage result and the fetched documents.
CloneExecute(stats, folderTokens, forceFullUpdate, listing, store, up, outcome) ==
  IF folderTokens = 0
  THEN [threw |-> TRUE, error |-> "No folder tokens provided for document collection",
        stats |-> stats, result |-> StageResult("clone", NoStats, FALSE, <<>>, <<>>),
        fetched |-> {}]
  ELSE
    LET s0 == [CloneResetStats EXCEPT !.totalDocuments = Len(listing)]
        inc == processDocumentsIncremental(s0, listing, forceFullUpdate, store, up)
        s1 == IF Len(listing) = 0 THEN s0
              ELSE IF Len(inc.documentsToProcess) = 0 THEN inc.stats
              ELSE fetchDocumentContents(inc.stats, inc.documentsToProcess, outcome)
    IN [threw |-> FALSE, error |-> "", stats |-> s1, result |-> CloneGetResults(s1),
        fetched |-> IF Len(listing) = 0 THEN {}
                    ELSE {inc.documentsToProcess[i].id :
                            i \in 1..Len(inc.documentsToProcess)}]

(***************************************************************************)
(* OpenAIService.splitContent / splitIntoSentences.                        *)
(* A sentence of length n is n characters followed by one terminator.      *)
(***************************************************************************)
\* content.length
ContentLength(content) == SumSeq(content) + Len(content)

\* Math.ceil(length * 1.5)
EstimatedTokens(length) == (3 * length + 1) \div 2

\* the for loop of splitContent over the remaining sentences
RECURSIVE SplitLoop(_, _, _, _)
SplitLoop(sentences, currentChunk, chunks, maxTokens) ==
  IF sentences = <<>>
  THEN IF Len(currentChunk) > 0 THEN Append(chunks, currentChunk) ELSE chunks
  ELSE LET sentence == Head(sentences)
           potentialChunk == Append(currentChunk, sentence)
           potentialTokens == EstimatedTokens(ContentLength(potentialChunk))
       IN IF potentialTokens > maxTokens /\ Len(currentChunk) > 0
          THEN SplitLoop(Tail(sentences), <<sentence>>,
                         Append(chunks, currentChunk), maxTokens)
          ELSE SplitLoop(Tail(sentences), potentialChunk, chunks, maxTokens)

splitContent(content, maxTokens) ==
  IF EstimatedTokens(ContentLength(content)) <= maxTokens
  THEN <<content>>
  ELSE SplitLoop(content, <<>>, <<>>, maxTokens)

(***************************************************************************)
(* CleanStage (Enrichment).                                                *)
(***************************************************************************)
\* an Enrichment that begins with a failure already on its counter
FailureCounterKept ==
  [totalDocuments |-> 0, aiProcessedDocuments |-> 0, cachedDocuments |-> 0,
   splitDocuments |-> 0, failedDocuments |-> 1, processedDocuments |-> <<>>]

CleanResetStats ==
  [totalDocuments |-> 0, aiProcessedDocuments |-> 0, cachedDocuments |-> 0,
   splitDocuments |-> 0, failedDocuments |-> 0, processedDocuments |-> <<>>]

\* an AI service whose failures go unnoticed
AlwaysReal(aiOutcome) == [kind |-> "real", error |-> FALSE]

\* OpenAIService.processDocumentAI never throws: when one of its four
\* requests fails it returns the degraded fields together with `error`
processDocumentAI(aiOutcome) ==
  IF aiOutcome = "ok" THEN [kind |-> "real", error |-> FALSE]
  ELSE [kind |-> "degraded", error |-> TRUE]

\* {...document, ...aiResults}: the AI fields of the document afterwards
MergeAI(document, aiResults) ==
  [document EXCEPT
     !.ai = IF aiResults.kind = "blank" THEN "none" ELSE aiResults.kind,
     !.error = IF aiResults.error THEN TRUE ELSE @]

\* an Enrichment that consults the cache whatever forceReprocess says
HitIgnoringForce(document, forceReprocess, store, up) ==
  LET cached == getCachedDocument(store, up, document.id)
  IN cached.found /\ cached.entry.aiResults.kind # "undefined"

\* whether the async body of processDocumentsWithAI serves the document
\* from the cache: !forceReprocess, cached && cached.aiResults
CleanCacheHit(document, forceReprocess, store, up) ==
  LET cached == getCachedDocument(store, up, document.id)
  IN ~forceReprocess /\ cached.found /\ cached.entry.aiResults.kind # "undefined"

\* the document the async body of processDocumentsWithAI returns
CleanProcessOne(document, forceReprocess, store, up, aiOutcome) ==
  IF CleanCacheHit(document, forceReprocess, store, up)
  THEN [MergeAI(document, getCachedDocument(store, up, document.id).entry.aiResults)
          EXCEPT !.cached = "true"]
  ELSE IF up
  THEN [MergeAI(document, processDocumentAI(aiOutcome)) EXCEPT !.cached = "false"]
  ELSE \* updateAIResults throws: the catch returns the basic document
       [document EXCEPT !.ai = "degraded", !.cached = "false", !.error = TRUE]

\* the cache after the updateAIResults calls of all the documents
RECURSIVE CleanCacheWrites(_, _, _, _, _, _)
CleanCacheWrites(store, documents, forceReprocess, up, aiOutcome, now_) ==
  IF documents = <<>> \/ ~up THEN store
  ELSE LET document == Head(documents)
           next == IF CleanCacheHit(document, forceReprocess, store, up)
                   THEN store
                   ELSE updateAIResults(store, document.id,
                          processDocumentAI(aiOutcome[document.id]), now_)
       IN CleanCacheWrites(next, Tail(documents), forceReprocess, up, aiOutcome, now_)

\* processDocumentsWithAI: documents, counters, cache
processDocumentsWithAI(stats, documents, forceReprocess, store, up, aiOutcome, now_) ==
  LET hit(i) == CleanCacheHit(documents[i], forceReprocess, store, up)
      hits == {i \in 1..Len(documents) : hit(i)}
      misses == (1..Len(documents)) \ hits
  IN [documents |-> [i \in 1..Len(documents) |->
                       CleanProcessOne(documents[i], forceReprocess, store, up,
                                       aiOutcome[documents[i].id])],
      stats |-> [stats EXCEPT
                   !.cachedDocuments = @ + Cardinality(hits),
                   !.aiProcessedDocuments = @ + (IF up THEN Cardinality(misses) ELSE 0),
                   !.failedDocuments = @ + (IF up THEN 0 ELSE Cardinality(misses))],
      store |-> CleanCacheWrites(store, documents, forceReprocess, up, aiOutcome, now_),
      aiCalled |-> {documents[i].id : i \in misses}]

\* the documents splitLargeDocuments makes of one document
SplitOne(document, maxTokens) ==
  LET chunks == splitContent(document.content, maxTokens)
  IN IF Len(chunks) > 1
     THEN [k \in 1..Len(chunks) |->
             [document EXCEPT !.id = PartId(document.id, k), !.content = chunks[k]]]
     ELSE <<document>>

splitLargeDocuments(stats, documents, maxTokens) ==
  [documents |-> Flatten([i \in 1..Len(documents) |-> SplitOne(documents[i], maxTokens)]),
   stats |-> [stats EXCEPT !.splitDocuments = @ +
                Cardinality({i \in 1..Len(documents) :
                               Len(SplitOne(documents[i], maxTokens)) > 1})]]

HasContent(document) == Len(document.content) > 0
HasError(document) == document.error

\* validateAndCleanDocuments: documents with empty content are skipped
\* (`continue`), without touching failedDocuments
validateAndCleanDocuments(documents) == SelectSeq(documents, HasContent)

CleanGetResults(stats, documents) ==
  LET cleanedDocuments == validateAndCleanDocuments(documents)
      withError == SelectSeq(documents, HasError)
  IN StageResult("clean",
       [totalDocuments |-> stats.totalDocuments,
        aiProcessedDocuments |-> stats.aiProcessedDocuments,
        cachedDocuments |-> stats.cachedDocuments,
        splitDocuments |-> stats.splitDocuments,
        failedDocuments |-> stats.failedDocuments,
        finalDocumentCount |-> Len(cleanedDocuments),
        aiProcessingRate |-> Rate(stats.aiProcessedDocuments, stats.totalDocuments),
        cacheHitRate |-> Rate(stats.cachedDocuments, stats.totalDocuments)],
       TRUE, cleanedDocuments,
       [i \in 1..Len(withError) |-> [documentId |-> withError[i].id, error |-> "ai"]])

\* CleanStage.execute.  documents is [isNull, docs]; with no documents
\* execute calls getResults(startTime) without a document list, and
\* validateAndCleanDocuments(undefined) throws a TypeError out of execute.
CleanExecute(stats, documents, forceReprocess, store, up, aiOutcome, now_) ==
  IF documents.isNull \/ Len(documents.docs) = 0
  THEN [threw |-> TRUE, error |-> "documents is not iterable",
        stats |-> stats, store |-> store,
        result |-> StageResult("clean", NoStats, FALSE, <<>>, <<>>),
        aiCalled |-> {}]
  ELSE
    LET s0 == [CleanResetStats EXCEPT !.totalDocuments = Len(documents.docs)]
        ai == processDocumentsWithAI(s0, documents.docs, forceReprocess, store, up,
                                     aiOutcome, now_)
        sp == splitLargeDocuments(ai.stats, ai.documents, DocumentSplitSize)
    IN [threw |-> FALSE, error |-> "", stats |-> sp.stats, store |-> ai.store,
        result |-> CleanGetResults(sp.stats, sp.documents),
        aiCalled |-> ai.aiCalled]

(***************************************************************************)
(* UploadStage (Indexing).                                                 *)
(***************************************************************************)
UploadResetStats ==
  [totalDocuments |-> 0, embeddedDocuments |-> 0, indexedDocuments |-> 0,
   cachedEmbeddings |-> 0, failedDocuments |-> 0, processedDocuments |-> <<>>]

\* !forceReindex, cached && cached.embedding && cached.embedding.length > 0
UploadCacheHit(document, forceReindex, store, up) ==
  LET cached == getCachedDocument(store, up, document.id)
  IN ~forceReindex /\ cached.found /\ cached.entry.embedding.kind # "none"

\* an Indexing that takes every embedding answer for a vector
AlwaysEmbedded(document, embedOutcome) ==
  [document EXCEPT !.embedding = RealEmbedding, !.cached = "false"]

\* the document generateEmbeddings pushes for one embedding result
WithEmbedding(document, embedOutcome) ==
  IF embedOutcome = "ok"
  THEN [document EXCEPT !.embedding = RealEmbedding, !.cached = "false"]
  ELSE [document EXCEPT !.embedding = ZeroVector, !.cached = "false",
                        !.embeddingError = TRUE]

\* generateEmbeddings: cached documents first, then the embedded ones
generateEmbeddings(stats, documents, forceReindex, store, up, embedOutcome) ==
  LET Hit(document) == UploadCacheHit(document, forceReindex, store, up)
      Miss(document) == ~UploadCacheHit(document, forceReindex, store, up)
      hits == SelectSeq(documents, Hit)
      textsToEmbed == SelectSeq(documents, Miss)
      fromCache == [i \in 1..Len(hits) |->
                      [hits[i] EXCEPT
                         !.embedding = getCachedDocument(store, up, hits[i].id).entry.embedding,
                         !.cached = "true"]]
      embedded == [i \in 1..Len(textsToEmbed) |->
                     WithEmbedding(textsToEmbed[i], embedOutcome[textsToEmbed[i].id])]
      failures == Cardinality({i \in 1..Len(embedded) : embedded[i].embeddingError})
  IN [documents |-> fromCache \o embedded,
      stats |-> [stats EXCEPT
                   !.cachedEmbeddings = @ + Len(hits),
                   !.embeddedDocuments = @ + (Len(embedded) - failures),
                   !.failedDocuments = @ + failures],
      embedCalled |-> {textsToEmbed[i].id : i \in 1..Len(textsToEmbed)}]

\* an Indexing that gives up at the first bulk write that throws
StopAtFailedBatch(stats, documents, indexOutcome, index_) ==
  LET bad == {k \in DOMAIN indexOutcome : indexOutcome[k] # "ok"}
      written == {i \in 1..Len(documents) :
                    \A k \in bad : ((i - 1) \div BatchSize) + 1 < k}
      ids == {documents[i].id : i \in written}
  IN [index |-> [id \in ids |->
                   documents[CHOOSE i \in written : documents[i].id = id].embedding]
                @@ index_,
      stats |-> [stats EXCEPT
                   !.indexedDocuments = @ + Cardinality(written),
                   !.failedDocuments = @ + (Len(documents) - Cardinality(written))]]

\* buildElasticsearchIndex: one bulk write per batch; indexOutcome[k] is
\* "ok" (every item of batch k is written) or "throws" (the bulk call fails)
buildElasticsearchIndex(stats, documents, indexOutcome, index_) ==
  LET batches == chunkArray(documents, BatchSize)
      okBatches == {k \in 1..Len(batches) : indexOutcome[k] = "ok"}
      written == {i \in 1..Len(documents) : ((i - 1) \div BatchSize) + 1 \in okBatches}
      newly == [id \in {documents[i].id : i \in written} |->
                  (CHOOSE i \in written : documents[i].id = id)]
  IN [index |-> [id \in DOMAIN newly |-> documents[newly[id]].embedding] @@ index_,
      stats |-> [stats EXCEPT
                   !.indexedDocuments = @ + Cardinality(written),
                   !.failedDocuments = @ + (Len(documents) - Cardinality(written))]]

ToCache(document) == document.cached # "true" /\ ~document.embeddingError

\* the aiResults object updateCache builds from the document's own fields
AIResultsOf(document) ==
  [kind |-> IF document.ai = "none" THEN "blank" ELSE document.ai, error |-> FALSE]

\* updateCache: batchCacheDocuments per batch; a failing batch is logged
updateCache(documents, store, up, now_) ==
  LET documentsToCache == SelectSeq(documents, ToCache)
      cacheOperations == [i \in 1..Len(documentsToCache) |->
                            [document |-> documentsToCache[i],
                             aiResults |-> AIResultsOf(documentsToCache[i])]]
  IN IF up THEN batchCacheDocuments(store, cacheOperations, now_) ELSE store

\* errors: this.stats.processedDocuments.filter(p => p.error); nothing is
\* ever pushed on processedDocuments
UploadGetResults(stats) ==
  StageResult("upload",
    [totalDocuments |-> stats.totalDocuments,
     embeddedDocuments |-> stats.embeddedDocuments,
     indexedDocuments |-> stats.indexedDocuments,
     cachedEmbeddings |-> stats.cachedEmbeddings,
     failedDocuments |-> stats.failedDocuments,
     embeddingGenerationRate |-> Rate(stats.embeddedDocuments, stats.totalDocuments),
     indexingSuccessRate |-> Rate(stats.indexedDocuments, stats.totalDocuments),
     cacheHitRate |-> Rate(stats.cachedEmbeddings, stats.totalDocuments)],
    FALSE, <<>>, stats.processedDocuments)

\* UploadStage.execute.  With no documents it returns getResults over the
\* statistics of the previous execution (resetStats comes later).
UploadExecute(stats, documents, forceReindex, store, up, embedOutcome, indexOutcome, index_, now_) ==
  IF documents.isNull \/ Len(documents.docs) = 0
  THEN [threw |-> FALSE, error |-> "", stats |-> stats, store |-> store,
        index |-> index_, result |-> UploadGetResults(stats),
        embedCalled |-> {}, documents |-> <<>>]
  ELSE
    LET s0 == [UploadResetStats EXCEPT !.totalDocuments = Len(documents.docs)]
        em == generateEmbeddings(s0, documents.docs, forceReindex, store, up, embedOutcome)
        ix == buildElasticsearchIndex(em.stats, em.documents, indexOutcome, index_)
    IN [threw |-> FALSE, error |-> "", stats |-> ix.stats,
        store |-> updateCache(em.documents, store, up, now_),
        index |-> ix.index, result |-> UploadGetResults(ix.stats),
        embedCalled |-> em.embedCalled, documents |-> em.documents]

(***************************************************************************)
(* PipelineOrchestrator.                                                   *)
(***************************************************************************)
StageOrder == <<"clone", "clean", "upload">>

NullDocuments == [isNull |-> TRUE, docs |-> <<>>]
Documents(docs) == [isNull |-> FALSE, docs |-> docs]

EmptyResults == [n \in {} |-> TRUE]

\* a loop that passes over no stage
NeverSkipped(name, skipStages) == FALSE

\* line 95: skipStages.includes(name)
Skipped(name, skipStages) == name \in skipStages

\* the loop without its await: the next stage starts at once
StartAtOnce(running) == TRUE

\* a loop that forgets what the stage returned
KeepDocuments(current, stageResult) == current

\* failFast read as never set / as always set
NeverFailFast(options) == FALSE
AlwaysFailFast(options) == TRUE

\* the record executePipeline stores for a stage whose execute threw
FailureRecord(name, message) ==
  [stage |-> name, success |-> FALSE, error |-> message,
   hasStats |-> FALSE, stats |-> NoStats,
   hasDocuments |-> FALSE, documents |-> <<>>, errors |-> <<>>]

\* `failFast !== false`: fail fast unless the option is exactly false
FailFast(options) == options.failFast # "false"

\* `if (stageResult.documents) currentDocuments = stageResult.documents`
\* (an empty array is truthy)
NextDocuments(current, stageResult) ==
  IF stageResult.hasDocuments THEN Documents(stageResult.documents) ELSE current

\* the `await` of line 138: the loop goes on only when the stage it
\* started has settled
LoopMayProceed(running) == running = {}

\* exact fractions
FracAdd(a, b) == [num |-> a.num * b.den + b.num * a.den, den |-> a.den * b.den]
FracEq(a, b) == a.num * b.den = b.num * a.den
FracLeq(a, b) == a.num * b.den <= b.num * a.den
Zero == [num |-> 0, den |-> 1]
One == [num |-> 1, den |-> 1]

\* rate * (totalDocuments || 0) when the stage reports the rate, else 0
Weighted(result, rate) ==
  IF rate \in DOMAIN result.stats
  THEN [num |-> result.stats[rate].num * result.stats.totalDocuments,
        den |-> result.stats[rate].den]
  ELSE Zero

\* stats.failedDocuments || 0
FailedOf(result) ==
  IF "failedDocuments" \in DOMAIN result.stats THEN result.stats.failedDocuments ELSE 0

RECURSIVE SumOver(_, _, _)
SumOver(names, stageResults, rate) ==
  IF names = <<>> THEN Zero
  ELSE FracAdd(Weighted(stageResults[Head(names)], rate),
               SumOver(Tail(names), stageResults, rate))

RECURSIVE MaxTotal(_, _)
MaxTotal(names, stageResults) ==
  IF names = <<>> THEN 0
  ELSE Max2(stageResults[Head(names)].stats.totalDocuments,
            MaxTotal(Tail(names), stageResults))

RECURSIVE SumCounts(_, _, _)
SumCounts(names, stageResults, what) ==
  IF names = <<>> THEN 0
  ELSE (IF what = "processed" THEN Len(stageResults[Head(names)].documents)
        ELSE FailedOf(stageResults[Head(names)]))
       + SumCounts(Tail(names), stageResults, what)

\* calculateOverallStats over the recorded stage results
calculateOverallStats(stageResults) ==
  LET Counted(name) == /\ name \in DOMAIN stageResults
                       /\ stageResults[name].success
                       /\ stageResults[name].hasStats
      names == SelectSeq(StageOrder, Counted)
      totalDocuments == MaxTotal(names, stageResults)
      Overall(rate) ==
        IF totalDocuments > 0
        THEN LET sum == SumOver(names, stageResults, rate)
             IN [num |-> sum.num, den |-> sum.den * totalDocuments]
        ELSE Zero
  IN [totalDocuments |-> totalDocuments,
      processedDocuments |-> SumCounts(names, stageResults, "processed"),
      failedDocuments |-> SumCounts(names, stageResults, "failed"),
      cacheHitRate |-> Overall("cacheHitRate"),
      aiProcessingRate |-> Overall("aiProcessingRate"),
      indexingSuccessRate |-> Overall("indexingSuccessRate"),
      stageStats |-> [n \in Range(names) |-> stageResults[n].stats]]

\* getPipelineResult
getPipelineResult(state) ==
  [success |-> TRUE, stages |-> state.stageResults, overallStats |-> state.overallStats]

(***************************************************************************)
(* State.                                                                  *)
(***************************************************************************)
VARIABLES
  now,              \* the clock
  source,           \* source[d]: the modified_time the source reports for d
  cache,            \* the cache collection: document id -> entry
  index,            \* the search index: document id -> embedding written
  stats,            \* stats[name]: this.stats of each stage object
  executionState,   \* the orchestrator's executionState
  pc,               \* "idle", "running", "resolved" or "rejected"
  options,          \* the options of the current executePipeline call
  stageIdx,         \* position of the for loop over the stages
  currentDocuments, \* the loop's currentDocuments
  running,          \* stages whose execute has been called and not settled
  outcome,          \* what executePipeline returned or threw
  runs,             \* number of executePipeline calls so far
  calls,            \* number of executeStage calls so far
  faults,           \* failing or empty collaborator answers so far
  started,          \* stages whose execute was called in this run, in order
  passed,           \* passed[name]: the documents handed to that execute
  thrown,           \* stages whose execute threw in this run
  runExec,          \* runExec[name]: what that stage's execution in this run did
  lastExec,         \* what the latest stage execution was given and did
  prevExec,         \* the same for the one before
  fetch,            \* a fetchDocumentContents call followed promise by promise
  split,            \* a splitLargeDocuments call: its input and its output
  collection,       \* the cache collection as MongoDB holds it, entry by entry
  embed,            \* one UploadStage.generateEmbeddings call, promise by promise
  lifecycle,        \* initialize and cleanup of the orchestrator and its stages
  retry,            \* one OpenAIService request with its retries
  overlap           \* two executePipeline calls in progress on one orchestrator

vars == <<now, source, cache, index, stats, executionState, pc, options,
          stageIdx, currentDocuments, running, outcome, runs, calls, faults,
          started, passed, thrown, runExec, lastExec, prevExec, fetch, split, collection, embed, lifecycle, retry, overlap>>

\* the cache collection before any operation: no entry, nothing written
NoCollection ==
  [entries |-> <<>>, ops |-> 0,
   last |-> [op |-> "none", documents |-> <<>>, aiResults |-> <<>>, at |-> Undefined,
             batch |-> <<>>, threw |-> FALSE]]

\* no splitLargeDocuments call is being followed
NoSplit == [content |-> <<>>, maxTokens |-> 0, done |-> FALSE, documents |-> <<>>]

\* no fetchDocumentContents call is being followed
NoFetch ==
  [phase |-> "idle", documents |-> <<>>, promise |-> <<>>, handled |-> {},
   batch |-> 0, stats |-> CloneResetStats, process |-> "alive",
   order |-> <<>>, contents |-> <<>>]

\* no error raised
NoError == [stage |-> "none", collaborator |-> "none"]

\* an orchestrator whose initialize and cleanup have not been called
NoLifecycle ==
  [phase |-> "idle", stage |-> [s \in StageNames |-> "idle"],
   done |-> [s \in StageNames |-> <<>>],
   stageError |-> [s \in StageNames |-> NoError], error |-> NoError,
   cleanup |-> "idle", closed |-> [s \in StageNames |-> "none"]]

\* no OpenAIService request under way
NoRetry ==
  [operation |-> "none", phase |-> "idle", attempt |-> 0, errors |-> <<>>,
   delays |-> <<>>, raised |-> "none"]

\* the two executePipeline calls made on one orchestrator
Calls == {"A", "B"}

\* the number of documents in the folders each call names
FolderDocuments == [c \in Calls |-> IF c = "A" THEN 1 ELSE 2]

\* resetStats of a stage: the counters of its this.stats that the result
\* reports (the processed count is successCount, aiProcessedDocuments or
\* indexedDocuments)
OverlapResetStats == [totalDocuments |-> 0, processed |-> 0]

\* no executePipeline call made yet on the orchestrator
NoOverlap ==
  [isRunning |-> FALSE, stageResults |-> EmptyResults,
   stats |-> [s \in StageNames |-> OverlapResetStats],
   call |-> [c \in Calls |->
               [pc |-> "idle", stage |-> 0, worked |-> FALSE,
                stages |-> EmptyResults]]]

\* no generateEmbeddings call under way
NoEmbed ==
  [phase |-> "idle", textsToEmbed |-> <<>>, promise |-> <<>>, batch |-> 0,
   order |-> <<>>, results |-> <<>>, documentsWithEmbeddings |-> <<>>,
   option |-> Undefined, concurrency |-> 0]

NoExec ==
  [stage |-> "none", force |-> FALSE, up |-> TRUE, threw |-> FALSE,
   input |-> <<>>, storeBefore |-> EmptyResults, result |-> FailureRecord("none", ""),
   called |-> {}, documents |-> <<>>,
   answers |-> [doc |-> EmptyResults, batch |-> <<>>]]

\* a record of one stage execution: its inputs, the cache it saw, its
\* result, the documents for which the collaborator (content fetch, AI,
\* embedding) was called, the documents it built, and what the
\* collaborators answered per document and per index batch
Exec(name, force, up, input, storeBefore, r, called, documents, answers) ==
  [stage |-> name, force |-> force, up |-> up, threw |-> r.threw,
   input |-> input, storeBefore |-> storeBefore, result |-> r.result,
   called |-> called, documents |-> documents, answers |-> answers]

DefaultOptions ==
  [folderTokens |-> 1, forceFullUpdate |-> FALSE, forceReprocess |-> FALSE,
   forceReindex |-> FALSE, skipStages |-> {}, failFast |-> "unset"]

\* The options a caller may pass.  A call without folder tokens is rejected
\* before any other option is read, and a skipped stage never reads its
\* force flag, so those combinations are represented once.
PipelineOptions ==
  {o \in [folderTokens : {0, 1}, forceFullUpdate : BOOLEAN,
          forceReprocess : BOOLEAN, forceReindex : BOOLEAN,
          skipStages : SUBSET StageNames, failFast : {"unset", "true", "false"}] :
     /\ o.folderTokens = 0 => o = [DefaultOptions EXCEPT !.folderTokens = 0]
     /\ "clone" \in o.skipStages => ~o.forceFullUpdate
     /\ "clean" \in o.skipStages => ~o.forceReprocess
     /\ "upload" \in o.skipStages => ~o.forceReindex}

\* the stages, their collaborators and the bookkeeping of the calls after
\* construction
StagesInit ==
  /\ now = 1
  /\ source = [d \in Docs |-> 1]
  /\ cache = EmptyResults
  /\ index = EmptyResults
  /\ stats = [clone |-> CloneResetStats, clean |-> CleanResetStats,
              upload |-> UploadResetStats]
  /\ pc = "idle"
  /\ options = DefaultOptions
  /\ stageIdx = 1
  /\ currentDocuments = NullDocuments
  /\ running = {}
  /\ outcome = [kind |-> "none"]
  /\ runs = 0
  /\ calls = 0
  /\ faults = 0
  /\ started = <<>>
  /\ passed = EmptyResults
  /\ thrown = {}
  /\ runExec = EmptyResults
  /\ lastExec = NoExec
  /\ prevExec = NoExec

\* the orchestrator, its stages and their collaborators after construction
PipelineInit ==
  /\ executionState = [isRunning |-> FALSE, currentStage |-> "null",
                       startTime |-> Undefined, stageResults |-> EmptyResults,
                       overallStats |-> EmptyResults]
  /\ StagesInit

Init ==
  /\ PipelineInit
  /\ fetch = NoFetch
  /\ split = NoSplit
  /\ collection = NoCollection
  /\ embed = NoEmbed
  /\ lifecycle = NoLifecycle
  /\ retry = NoRetry
  /\ overlap = NoOverlap

(***************************************************************************)
(* The environment: time passes, documents are edited at the source.       *)
(***************************************************************************)
Tick ==
  /\ UNCHANGED <<fetch, split, collection, embed, lifecycle, retry, overlap>>
  /\ pc # "running"
  /\ now < MaxTime
  /\ now' = now + 1
  /\ UNCHANGED <<source, cache, index, stats, executionState, pc, options,
                 stageIdx, currentDocuments, running, outcome, runs, calls,
                 faults, started, passed, thrown, runExec, lastExec, prevExec>>

\* the source reports a new modification time for d: the current time, or
\* (an anomaly, counted with the faults) a value Date cannot parse
SourceEdit(d, mt) ==
  /\ UNCHANGED <<fetch, split, collection, embed, lifecycle, retry, overlap>>
  /\ pc # "running"
  /\ mt \in {Garbage, now}
  /\ source[d] # mt
  /\ Garbage \notin {mt, source[d]} => source[d] < mt
  /\ LET n == IF mt = Garbage THEN 1 ELSE 0
     IN /\ faults + n <= MaxFaults
        /\ faults' = faults + n
  /\ source' = [source EXCEPT ![d] = mt]
  /\ UNCHANGED <<now, cache, index, stats, executionState, pc, options,
                 stageIdx, currentDocuments, running, outcome, runs, calls,
                 started, passed, thrown, runExec, lastExec, prevExec>>

\* the files a folder enumeration returns
Listing == [i \in 1..Len(DocOrder) |-> FileRef(DocOrder[i], source[DocOrder[i]])]

(***************************************************************************)
(* executePipeline.                                                        *)
(***************************************************************************)
\* lines 59-91: the state is marked running, the stage results are emptied,
\* and the call is rejected at once when no folder token is given
BeginRun(o) ==
  /\ UNCHANGED <<fetch, split, collection, embed, lifecycle, retry, overlap>>
  /\ pc # "running"
  /\ runs' = runs + 1
  /\ options' = o
  /\ stageIdx' = 1
  /\ currentDocuments' = NullDocuments
  /\ running' = {}
  /\ started' = <<>>
  /\ passed' = EmptyResults
  /\ thrown' = {}
  /\ runExec' = EmptyResults
  /\ IF o.folderTokens = 0
     THEN /\ executionState' = [executionState EXCEPT
                                  !.isRunning = FALSE, !.startTime = now,
                                  !.stageResults = EmptyResults]
          /\ pc' = "rejected"
          /\ outcome' = [kind |-> "rejected", stage |-> "none",
                         message |-> "folderTokens is required and cannot be empty"]
     ELSE /\ executionState' = [executionState EXCEPT
                                  !.isRunning = TRUE, !.startTime = now,
                                  !.stageResults = EmptyResults]
          /\ pc' = "running"
          /\ outcome' = [kind |-> "pending"]
  /\ UNCHANGED <<now, source, cache, index, stats, calls, faults, lastExec, prevExec>>

\* the run of a behaviour
ExecutePipelineBegin(o) ==
  /\ runs < MaxRuns
  /\ BeginRun(o)

\* lines 95-98: a stage named in skipStages is passed over
StageSkip ==
  /\ UNCHANGED <<fetch, split, collection, embed, lifecycle, retry, overlap>>
  /\ pc = "running"
  /\ stageIdx <= Len(StageOrder)
  /\ LoopMayProceed(running)
  /\ Skipped(StageOrder[stageIdx], options.skipStages)
  /\ stageIdx' = stageIdx + 1
  /\ UNCHANGED <<now, source, cache, index, stats, executionState, pc, options,
                 currentDocuments, running, outcome, runs, calls, faults,
                 started, passed, thrown, runExec, lastExec, prevExec>>

\* lines 100-138: the stage options are built and execute is called
StageStart ==
  /\ UNCHANGED <<fetch, split, collection, embed, lifecycle, retry, overlap>>
  /\ pc = "running"
  /\ stageIdx <= Len(StageOrder)
  /\ LoopMayProceed(running)
  /\ ~Skipped(StageOrder[stageIdx], options.skipStages)
  /\ LET name == StageOrder[stageIdx]
     IN /\ executionState' = [executionState EXCEPT !.currentStage = name]
        /\ running' = running \cup {name}
        /\ started' = Append(started, name)
        /\ passed' = (name :> (IF name = "clone" THEN NullDocuments
                               ELSE currentDocuments)) @@ passed
  /\ stageIdx' = stageIdx + 1
  /\ UNCHANGED <<now, source, cache, index, stats, pc, options,
                 currentDocuments, outcome, runs, calls, faults, thrown, runExec,
                 lastExec, prevExec>>

\* lines 140-173: what the loop does with a settled execute (r)
Settled(name, r) ==
  /\ UNCHANGED <<fetch, split, collection, embed, lifecycle, retry, overlap>>
  /\ runExec' = (name :> lastExec') @@ runExec
  /\ IF ~r.threw
     THEN /\ executionState' = [executionState EXCEPT
                                  !.stageResults = (name :> r.result) @@ @]
          /\ currentDocuments' = NextDocuments(currentDocuments, r.result)
          /\ running' = running \ {name}
          /\ UNCHANGED <<pc, outcome, thrown>>
     ELSE /\ thrown' = thrown \cup {name}
          /\ UNCHANGED currentDocuments
          /\ IF FailFast(options)
             THEN /\ executionState' = [executionState EXCEPT
                        !.stageResults = (name :> FailureRecord(name, r.error)) @@ @,
                        !.isRunning = FALSE]
                  /\ pc' = "rejected"
                  /\ running' = {}
                  /\ outcome' = [kind |-> "rejected", stage |-> name,
                                 message |-> r.error]
             ELSE /\ executionState' = [executionState EXCEPT
                        !.stageResults = (name :> FailureRecord(name, r.error)) @@ @]
                  /\ running' = running \ {name}
                  /\ UNCHANGED <<pc, outcome>>
  /\ UNCHANGED <<now, source, options, stageIdx, runs, calls, started, passed>>

\* lines 176-186: statistics, isRunning = false, the pipeline result
PipelineFinish ==
  /\ UNCHANGED <<fetch, split, collection, embed, lifecycle, retry, overlap>>
  /\ pc = "running"
  /\ stageIdx > Len(StageOrder)
  /\ LoopMayProceed(running)
  /\ LET final == [executionState EXCEPT
                     !.overallStats = calculateOverallStats(executionState.stageResults),
                     !.isRunning = FALSE]
     IN /\ executionState' = final
        /\ outcome' = [kind |-> "resolved", result |-> getPipelineResult(final)]
  /\ pc' = "resolved"
  /\ UNCHANGED <<now, source, cache, index, stats, options, stageIdx,
                 currentDocuments, running, runs, calls, faults, started,
                 passed, thrown, runExec, lastExec, prevExec>>

(***************************************************************************)
(* The stage executions.  The remote collaborators answer as they please:  *)
(* `up` (the cache server is reachable during the execution), `listed`     *)
(* (the folder enumeration succeeds), and one outcome per document or      *)
(* batch handed to the source, the AI provider and the search index.       *)
(* At most MaxFaults of these answers in a behaviour are not "ok".         *)
(***************************************************************************)
Ids(documents) == {documents[i].id : i \in 1..Len(documents)}

\* the documents CloneStage.execute hands to fetchDocumentContents
CloneFetchSet(listing, forceFullUpdate, store, up) ==
  Ids(processDocumentsIncremental(CloneResetStats, listing, forceFullUpdate,
                                  store, up).documentsToProcess)

\* the batches UploadStage.execute hands to the search index
UploadBatches(documents) ==
  1..((Len(documents.docs) + BatchSize - 1) \div BatchSize)

Anomalies(documents) ==
  IF \E i \in 1..Len(documents.docs) : documents.docs[i].modified_time = Garbage
  THEN 1 ELSE 0

NotOk(oc) == Cardinality({x \in DOMAIN oc : oc[x] # "ok"})
Bit(b) == IF b THEN 0 ELSE 1
Affordable(n) == faults + n <= MaxFaults

\* executeStage returns (or rethrows) what the stage's execute gave
Returned(r) ==
  /\ UNCHANGED <<fetch, split, collection, embed, lifecycle, retry, overlap>>
  /\ calls' = calls + 1
  /\ UNCHANGED <<now, source, executionState, pc, options, stageIdx,
                 currentDocuments, running, outcome, runs, started, passed,
                 thrown, runExec>>

\* what the caller of execute, the pipeline loop or executeStage, does next
After(caller, name, r) ==
  IF caller = "executePipeline" THEN Settled(name, r) ELSE Returned(r)

\* CloneStage.execute
RunClone(folderTokens, forceFullUpdate, caller) ==
  \E up \in BOOLEAN, listed \in BOOLEAN :
    LET listing == IF listed THEN Listing ELSE <<>>
    IN \E oc \in [CloneFetchSet(listing, forceFullUpdate, cache, up) -> FetchOutcomes] :
         LET r == CloneExecute(stats.clone, folderTokens, forceFullUpdate,
                               listing, cache, up, oc)
             n == Bit(up) + Bit(listed) + NotOk(oc)
         IN /\ Affordable(n)
            /\ faults' = faults + n
            /\ stats' = [stats EXCEPT !.clone = r.stats]
            /\ prevExec' = lastExec
            /\ lastExec' = Exec("clone", forceFullUpdate, up, listing, cache, r,
                                r.fetched, r.result.documents,
                                [doc |-> oc, batch |-> <<>>])
            /\ UNCHANGED <<cache, index>>
            /\ After(caller, "clone", r)

\* CleanStage.execute
RunClean(documents, forceReprocess, caller) ==
  \E up \in BOOLEAN :
    \E oc \in [Ids(documents.docs) -> {"ok", "fails"}] :
      LET r == CleanExecute(stats.clean, documents, forceReprocess, cache, up,
                            oc, now)
          n == Bit(up) + NotOk(oc) + Anomalies(documents)
      IN /\ Affordable(n)
         /\ faults' = faults + n
         /\ stats' = [stats EXCEPT !.clean = r.stats]
         /\ cache' = r.store
         /\ prevExec' = lastExec
         /\ lastExec' = Exec("clean", forceReprocess, up, documents.docs, cache, r,
                             r.aiCalled, r.result.documents,
                             [doc |-> oc, batch |-> <<>>])
         /\ UNCHANGED index
         /\ After(caller, "clean", r)

\* UploadStage.execute
RunUpload(documents, forceReindex, caller) ==
  \E up \in BOOLEAN :
    \E oc \in [Ids(documents.docs) -> {"ok", "fails"}],
       ic \in [UploadBatches(documents) -> {"ok", "throws"}] :
      LET r == UploadExecute(stats.upload, documents, forceReindex, cache, up,
                             oc, ic, index, now)
          n == Bit(up) + NotOk(oc) + NotOk(ic) + Anomalies(documents)
      IN /\ Affordable(n)
         /\ faults' = faults + n
         /\ stats' = [stats EXCEPT !.upload = r.stats]
         /\ cache' = r.store
         /\ index' = r.index
         /\ prevExec' = lastExec
         /\ lastExec' = Exec("upload", forceReindex, up, documents.docs, cache, r,
                             r.embedCalled, r.documents,
                             [doc |-> oc, batch |-> ic])
         /\ After(caller, "upload", r)

\* line 138 settling, for each stage of the running pipeline
SettleClone ==
  /\ pc = "running"
  /\ "clone" \in running
  /\ RunClone(options.folderTokens, options.forceFullUpdate, "executePipeline")

SettleClean ==
  /\ pc = "running"
  /\ "clean" \in running
  /\ RunClean(passed["clean"], options.forceReprocess, "executePipeline")

SettleUpload ==
  /\ pc = "running"
  /\ "upload" \in running
  /\ RunUpload(passed["upload"], options.forceReindex, "executePipeline")

(***************************************************************************)
(* executeStage(stageName, options): one stage on the caller's documents.  *)
(***************************************************************************)
\* a document a caller hands to executeStage
InputDocument(d, mt) ==
  [processDocDocument(FileRef(d, mt), Text(d)) EXCEPT !.modified_time = mt]

\* the document lists a caller hands over, in source order; a modified_time
\* that Date cannot parse is an anomaly, counted with the faults
InputDocuments ==
  {Documents([i \in 1..Len(ds) |-> InputDocument(ds[i], mt)]) :
     <<ds, mt>> \in {SelectSeq(DocOrder, LAMBDA d : d \in S) : S \in SUBSET Docs}
                    \X {Undefined, Garbage}}

ExecuteStageClone ==
  /\ pc # "running"
  /\ calls < MaxCalls
  /\ \E folderTokens \in {0, 1}, forceFullUpdate \in BOOLEAN :
       RunClone(folderTokens, forceFullUpdate, "executeStage")

ExecuteStageClean ==
  /\ pc # "running"
  /\ calls < MaxCalls
  /\ \E documents \in InputDocuments, forceReprocess \in BOOLEAN :
       RunClean(documents, forceReprocess, "executeStage")

ExecuteStageUpload ==
  /\ pc # "running"
  /\ calls < MaxCalls
  /\ \E documents \in InputDocuments, forceReindex \in BOOLEAN :
       RunUpload(documents, forceReindex, "executeStage")

\* a caller indexes documents of its own before the pipeline is first run
Seed ==
  /\ runs = 0
  /\ calls = 0
  /\ \E documents \in InputDocuments : RunUpload(documents, FALSE, "executeStage")

\* one pipeline run, over a cache that an earlier Indexing may have filled
Next ==
  \/ (calls > 0 /\ runs < MaxRuns /\ Tick)
  \/ (calls > 0 /\ runs < MaxRuns /\ \E d \in Docs, mt \in {Garbage, now} : SourceEdit(d, mt))
  \/ Seed
  \/ \E o \in PipelineOptions : ExecutePipelineBegin(o)
  \/ StageSkip
  \/ StageStart
  \/ SettleClone
  \/ SettleClean
  \/ SettleUpload
  \/ PipelineFinish

Spec == Init /\ [][Next]_vars

\* the stages executed one at a time through executeStage
StageNext ==
  \/ (calls < MaxCalls /\ Tick)
  \/ (calls < MaxCalls /\ \E d \in Docs, mt \in {Garbage, now} : SourceEdit(d, mt))
  \/ ExecuteStageClone
  \/ ExecuteStageClean
  \/ ExecuteStageUpload

StageSpec == Init /\ [][StageNext]_vars

(***************************************************************************)
(* Enrichment of documents whose content was edited after they had been    *)
(* indexed and cached.                                                     *)
(***************************************************************************)
\* the text of a document after an edit at the source: one more sentence
EditedText(d) == Append(Text(d), 1)

\* the document lists a caller hands over after the edit
EditedDocuments ==
  {Documents([i \in 1..Len(ds) |->
                [InputDocument(ds[i], Undefined) EXCEPT !.content = EditedText(ds[i])]]) :
     ds \in {SelectSeq(DocOrder, LAMBDA d : d \in S) : S \in SUBSET Docs}}

\* executeStage('clean', {documents}) on the edited documents
ExecuteStageCleanEdited ==
  /\ pc # "running"
  /\ calls < MaxCalls
  /\ \E documents \in EditedDocuments, forceReprocess \in BOOLEAN :
       RunClean(documents, forceReprocess, "executeStage")

\* the documents are indexed, edited or not, and enriched
ReuseNext ==
  \/ ExecuteStageUpload
  \/ ExecuteStageClean
  \/ ExecuteStageCleanEdited

ReuseSpec == Init /\ [][ReuseNext]_vars

(***************************************************************************)
(* CloneStage.fetchDocumentContents, promise by promise.                   *)
(* Line 973 calls getDocumentContent for every document at once, so every  *)
(* content promise exists, and may settle, from the start.  The loop then  *)
(* hands the promises to Promise.allSettled one batch at a time (which     *)
(* attaches the handlers of that batch only), and sleeps between batches.  *)
(* A promise that rejects while no handler is attached to it raises the    *)
(* process's unhandledRejection event when the microtask queue drains,     *)
(* before any timer or I/O callback runs.                                  *)
(***************************************************************************)
pipelineVars == <<now, source, cache, index, stats, executionState, pc, options,
                  stageIdx, currentDocuments, running, outcome, runs, calls,
                  faults, started, passed, thrown, runExec, lastExec, prevExec>>

FetchOrder == <<"d1", "d2", "d3", "d4", "d5">>

\* the documents handed to fetchDocumentContents
FetchDocuments(n) == [i \in 1..n |-> FileRef(FetchOrder[i], 1)]

\* what the source holds for the document at position i: one text per document
SourceContent(i) == [k \in 1..i |-> i]

\* the k-th smallest of a set of positions
Kth(positions, k) ==
  CHOOSE i \in positions : Cardinality({j \in positions : j < i}) = k - 1

\* results handed over in the order the promises settled
AsCompleted(promises, order) == SelectSeq(order, LAMBDA i : i \in promises)

\* Promise.all and Promise.allSettled: the results are in the order of the
\* promises passed, whatever order they settled in
PromiseAll(promises, order) ==
  [k \in 1..Cardinality(promises) |-> Kth(promises, k)]

\* the positions of batch k in the list of promises
BatchOf(k, n) == {i \in 1..n : ((i - 1) \div BatchSize) + 1 = k}

\* a rejected content promise nothing listens to
Unhandled ==
  {i \in 1..Len(fetch.promise) : fetch.promise[i] = "rejected" /\ i \notin fetch.handled}

\* lines 966-985: the content requests of all the documents are issued, and
\* the first batch is handed to Promise.allSettled
FetchStart(n) ==
  /\ fetch.phase = "idle"
  /\ fetch' = [phase |-> "awaiting", documents |-> FetchDocuments(n),
               promise |-> [i \in 1..n |-> "pending"], handled |-> BatchOf(1, n),
               batch |-> 1, stats |-> CloneResetStats, process |-> "alive",
               order |-> <<>>, contents |-> <<>>]
  /\ UNCHANGED <<pipelineVars, split, collection, embed, lifecycle, retry, overlap>>

\* FeishuClient.getDocumentContent answers for document i, or fails
ContentSettles(i, how) ==
  /\ fetch.process = "alive"
  /\ fetch.phase \in {"awaiting", "sleeping"}
  /\ Unhandled = {}
  /\ i \in 1..Len(fetch.promise)
  /\ fetch.promise[i] = "pending"
  /\ fetch' = [fetch EXCEPT !.promise[i] = how, !.order = Append(@, i)]
  /\ UNCHANGED <<pipelineVars, split, collection, embed, lifecycle, retry, overlap>>

\* process.on('unhandledRejection'): process.exit(1)
UnhandledRejection ==
  /\ fetch.process = "alive"
  /\ Unhandled # {}
  /\ fetch' = [fetch EXCEPT !.process = "exited"]
  /\ UNCHANGED <<pipelineVars, split, collection, embed, lifecycle, retry, overlap>>

\* lines 985-1030: allSettled of the current batch resolves and its results
\* are recorded; extracted[i] tells how the extractor answers for the value
\* of promise i.  contents[index] is the promise whose result sits at position idx.
BatchSettled ==
  /\ fetch.process = "alive"
  /\ fetch.phase = "awaiting"
  /\ Unhandled = {}
  /\ LET n == Len(fetch.promise)
         batch == BatchOf(fetch.batch, n)
         first == (fetch.batch - 1) * BatchSize
     IN /\ \A i \in batch : fetch.promise[i] # "pending"
        /\ \E extracted \in [batch -> {"ok", "extractFails", "empty"}] :
             LET contents == PromiseAll(batch, fetch.order)
                 documents == [idx \in 1..Len(contents) |-> fetch.documents[first + idx]]
                 answer == [id \in Ids(documents) |->
                               LET idx == CHOOSE k \in 1..Len(documents) : documents[k].id = id
                                   i == contents[idx]
                               IN IF fetch.promise[i] = "rejected" THEN "fetchFails"
                                  ELSE extracted[i]]
                 values == [idx \in 1..Len(contents) |->
                              [documentId |-> documents[idx].id,
                               status |-> fetch.promise[contents[idx]],
                               value |-> SourceContent(contents[idx])]]
             IN fetch' = [fetch EXCEPT
                            !.stats = fetchDocumentContents(@, documents, answer),
                            !.contents = @ \o values,
                            !.phase = "sleeping"]
  /\ UNCHANGED <<pipelineVars, split, collection, embed, lifecycle, retry, overlap>>

\* lines 1039-1044 and 980-985: the sleep between batches ends; the next
\* batch is handed to Promise.allSettled, or the function returns
NextBatch ==
  /\ fetch.process = "alive"
  /\ fetch.phase = "sleeping"
  /\ Unhandled = {}
  /\ LET n == Len(fetch.promise)
     IN IF fetch.batch * BatchSize >= n
        THEN fetch' = [fetch EXCEPT !.phase = "done"]
        ELSE fetch' = [fetch EXCEPT !.phase = "awaiting", !.batch = @ + 1,
                                    !.handled = @ \cup BatchOf(fetch.batch + 1, n)]
  /\ UNCHANGED <<pipelineVars, split, collection, embed, lifecycle, retry, overlap>>

FetchNext ==
  \/ \E n \in 1..Min2(MaxFetch, Len(FetchOrder)) : FetchStart(n)
  \/ \E i \in 1..MaxFetch, how \in {"fulfilled", "rejected"} : ContentSettles(i, how)
  \/ UnhandledRejection
  \/ BatchSettled
  \/ NextBatch

FetchSpec == Init /\ [][FetchNext]_vars

(***************************************************************************)
(* UploadStage.generateEmbeddings on documents none of which is cached,    *)
(* promise by promise.  OpenAIService.batchGenerateEmbeddings cuts the     *)
(* texts into batches of `concurrency`, starts the requests of one batch,  *)
(* awaits them with Promise.all, sleeps, and goes on with the next batch;  *)
(* every request catches its own failure, so no promise rejects.  The      *)
(* stage then attaches result number `index` to textsToEmbed[index].       *)
(***************************************************************************)
MaxEmbed == 3         \* documents per generateEmbeddings call
MaxConcurrent == 2    \* config.performance.maxConcurrentAiRequests

\* the documents handed to generateEmbeddings, each with its own content
EmbedDocuments(n) ==
  [i \in 1..n |-> processDocDocument(FileRef(FetchOrder[i], 1), SourceContent(i))]

\* the positions of batch k of chunkArray(texts, concurrency)
EmbedBatchOf(k, n, concurrency) == {i \in 1..n : ((i - 1) \div concurrency) + 1 = k}

\* pipeline-orchestrator.js 69-77 and 106-109: the options executePipeline
\* hands to every stage; `option` is the maxConcurrentAiRequests it was given
StageOptions(option) ==
  [maxConcurrentAiRequests |-> IF option = Undefined THEN MaxConcurrent ELSE option]

\* clean-stage.js 437-442: UploadStage.execute reads the property
\* maxConcurrentEmbeddings of its options, with the configured value as default
maxConcurrentEmbeddings(stageOptions) ==
  IF "maxConcurrentEmbeddings" \in DOMAIN stageOptions
  THEN stageOptions.maxConcurrentEmbeddings
  ELSE MaxConcurrent

\* the vector the provider computes from a text
Embedding(text) == [kind |-> "real", width |-> EmbeddingWidth, of |-> text]

\* the document generateEmbeddings pushes for result `result`
Merged(document, result) ==
  IF result.success /\ result.embedding.kind # "none"
  THEN [document EXCEPT !.embedding = result.embedding, !.cached = "false"]
  ELSE [document EXCEPT !.embedding = ZeroVector, !.cached = "false",
                        !.embeddingError = TRUE]

\* lines 513-519 and batchGenerateEmbeddings 559-566: the texts are taken
\* from the documents and the requests of the first batch are started
GenerateEmbeddings(n, option) ==
  LET concurrency == maxConcurrentEmbeddings(StageOptions(option))
  IN embed' = [phase |-> "awaiting", textsToEmbed |-> EmbedDocuments(n),
               promise |-> [i \in 1..n |-> IF i \in EmbedBatchOf(1, n, concurrency)
                                           THEN "pending" ELSE "none"],
               batch |-> 1, order |-> <<>>, results |-> <<>>,
               documentsWithEmbeddings |-> <<>>,
               option |-> option, concurrency |-> concurrency]

\* generateEmbeddings in an Indexing whose caller gave no concurrency option
GenerateEmbeddingsStart(n) ==
  /\ embed.phase = "idle"
  /\ GenerateEmbeddings(n, Undefined)
  /\ UNCHANGED <<pipelineVars, fetch, split, collection, lifecycle, retry, overlap>>

\* generateEmbeddings in the Indexing of an executePipeline call that was
\* given the option maxConcurrentAiRequests
IndexingInRun(n, option) ==
  /\ embed.phase = "idle"
  /\ GenerateEmbeddings(n, option)
  /\ UNCHANGED <<pipelineVars, fetch, split, collection, lifecycle, retry, overlap>>

\* generateEmbedding answers for text i, or fails and is caught
EmbeddingSettles(i, how) ==
  /\ embed.phase = "awaiting"
  /\ i \in 1..Len(embed.promise)
  /\ embed.promise[i] = "pending"
  /\ embed' = [embed EXCEPT !.promise[i] = how, !.order = Append(@, i)]
  /\ UNCHANGED <<pipelineVars, fetch, split, collection, lifecycle, retry, overlap>>

\* lines 576-577: Promise.all of the current batch resolves and its results
\* are pushed
EmbeddingsSettled ==
  /\ embed.phase = "awaiting"
  /\ LET n == Len(embed.promise)
         batch == EmbedBatchOf(embed.batch, n, embed.concurrency)
         texts == [i \in 1..n |-> embed.textsToEmbed[i].content]
     IN /\ \A i \in batch : embed.promise[i] \notin {"pending", "none"}
        /\ LET promises == PromiseAll(batch, embed.order)
               batchResults ==
                 [idx \in 1..Len(promises) |->
                    LET i == promises[idx]
                    IN IF embed.promise[i] = "ok"
                       THEN [success |-> TRUE, embedding |-> Embedding(texts[i]),
                             index |-> (i - 1) % embed.concurrency]
                       ELSE [success |-> FALSE, embedding |-> NoEmbedding,
                             index |-> (i - 1) % embed.concurrency]]
           IN embed' = [embed EXCEPT !.results = @ \o batchResults,
                                     !.phase = "sleeping"]
  /\ UNCHANGED <<pipelineVars, fetch, split, collection, lifecycle, retry, overlap>>

\* lines 579-586 and clean-stage.js 520-544: the sleep ends; the requests of
\* the next batch are started, or the results are returned and merged
EmbeddingsNextBatch ==
  /\ embed.phase = "sleeping"
  /\ LET n == Len(embed.promise)
     IN IF embed.batch * embed.concurrency >= n
        THEN embed' = [embed EXCEPT
                         !.phase = "done",
                         !.documentsWithEmbeddings =
                            [idx \in 1..Len(embed.results) |->
                               Merged(embed.textsToEmbed[idx], embed.results[idx])]]
        ELSE embed' = [embed EXCEPT
                         !.phase = "awaiting", !.batch = @ + 1,
                         !.promise = [i \in 1..n |->
                                        IF i \in EmbedBatchOf(embed.batch + 1, n, embed.concurrency)
                                        THEN "pending" ELSE @[i]]]
  /\ UNCHANGED <<pipelineVars, fetch, split, collection, lifecycle, retry, overlap>>

EmbedNext ==
  \/ \E n \in 1..Min2(MaxEmbed, Len(FetchOrder)) : GenerateEmbeddingsStart(n)
  \/ \E i \in 1..MaxEmbed, how \in {"ok", "fails"} : EmbeddingSettles(i, how)
  \/ EmbeddingsSettled
  \/ EmbeddingsNextBatch

\* the embedding requests of Indexing inside pipeline runs
IndexingNext ==
  \/ \E n \in 1..Min2(MaxEmbed, Len(FetchOrder)), option \in 1..MaxConcurrent : IndexingInRun(n, option)
  \/ \E i \in 1..MaxEmbed, how \in {"ok", "fails"} : EmbeddingSettles(i, how)
  \/ EmbeddingsSettled
  \/ EmbeddingsNextBatch

IndexingSpec == Init /\ [][IndexingNext]_vars

\* the two windowed calls, each at its own pace
WindowNext == FetchNext \/ EmbedNext

WindowSpec == Init /\ [][WindowNext]_vars

(***************************************************************************)
(* PipelineOrchestrator.initialize.  The three stages are constructed and  *)
(* their initialize methods are all called at once; each stage awaits its  *)
(* collaborators one after the other and rethrows the first failure.  The  *)
(* orchestrator awaits the three promises with Promise.all and rethrows.   *)
(* A stage whose initialize is still in flight when the orchestrator has   *)
(* rejected goes on to its end.                                            *)
(***************************************************************************)
\* what each stage's initialize awaits, in order
Collaborators(stage) ==
  CASE stage = "clone" -> <<"cache">>
    [] stage = "clean" -> <<"openai", "cache">>
    [] stage = "upload" -> <<"openai", "elasticsearch", "cache">>

\* how a collaborator's initialization may end; createIndexes failing inside
\* MongoDBCache.connect is logged there and connect resolves
InitOutcomes(collaborator) ==
  IF collaborator = "cache" THEN {"ok", "fails", "indexesFail"} ELSE {"ok", "fails"}

\* an await that waits for every promise and ignores the rejections
AllSettled(settled) ==
  IF \A s \in DOMAIN settled : settled[s] # "pending" THEN "resolved" ELSE "pending"

\* await Promise.all(initPromises): rejected with the first rejection,
\* resolved when every promise has resolved
AwaitAll(settled) ==
  IF \E s \in DOMAIN settled : settled[s] = "rejected" THEN "rejected"
  ELSE IF \A s \in DOMAIN settled : settled[s] = "resolved" THEN "resolved"
  ELSE "pending"

\* lines 28-47: the stages are constructed and every initialize is called
Initialize ==
  /\ lifecycle.phase = "idle"
  /\ lifecycle' = [lifecycle EXCEPT !.phase = "running",
                                    !.stage = [s \in StageNames |-> "pending"]]
  /\ UNCHANGED <<pipelineVars, fetch, split, collection, embed, retry, overlap>>

\* the collaborator a stage's initialize is waiting for answers; the stage
\* goes on to the next one, resolves, or rejects with the failure, and the
\* orchestrator's Promise.all settles accordingly
CollaboratorSettles(s, how) ==
  /\ lifecycle.phase # "idle"
  /\ lifecycle.stage[s] = "pending"
  /\ LET collaborator == Collaborators(s)[Len(lifecycle.done[s]) + 1]
         done == Append(lifecycle.done[s], how)
         settled == IF how = "fails" THEN "rejected"
                    ELSE IF Len(done) = Len(Collaborators(s)) THEN "resolved"
                    ELSE "pending"
         stage == [lifecycle.stage EXCEPT ![s] = settled]
         raised == [stage |-> s, collaborator |-> collaborator]
         awaited == AwaitAll(stage)
     IN /\ how \in InitOutcomes(collaborator)
        /\ lifecycle' =
             [lifecycle EXCEPT
                !.done[s] = done,
                !.stage = stage,
                !.stageError[s] = IF settled = "rejected" THEN raised ELSE @,
                !.phase = IF @ = "running" /\ awaited # "pending" THEN awaited ELSE @,
                !.error = IF lifecycle.phase = "running" /\ awaited = "rejected"
                          THEN raised ELSE @]
  /\ UNCHANGED <<pipelineVars, fetch, split, collection, embed, retry, overlap>>

InitNext ==
  \/ Initialize
  \/ \E s \in StageNames, how \in {"ok", "fails", "indexesFail"} : CollaboratorSettles(s, how)

InitSpec == Init /\ [][InitNext]_vars

(***************************************************************************)
(* An orchestrator that is used again: after a first executePipeline has   *)
(* returned, the caller may call executePipeline once more, and may call   *)
(* cleanup.  The clock and the source stand still.                         *)
(***************************************************************************)
MaxReruns == 1        \* executePipeline calls after the first one has returned

\* the options of a later call: no folder token, every stage skipped, or none
RerunOptions ==
  {[DefaultOptions EXCEPT !.folderTokens = 0],
   [DefaultOptions EXCEPT !.skipStages = StageNames],
   [DefaultOptions EXCEPT !.skipStages = {"clean", "upload"}]}

\* executePipeline is called again on the same orchestrator
ExecutePipelineAgain(o) ==
  /\ pc \in {"resolved", "rejected"}
  /\ runs >= MaxRuns
  /\ runs < MaxRuns + MaxReruns
  /\ BeginRun(o)

\* a cleanup that leaves the execution state as it is
KeepExecutionState(state) == state

\* lines 378-384: the execution state cleanup installs
ResetExecutionState(state) ==
  [isRunning |-> FALSE, currentStage |-> "null", startTime |-> Undefined,
   stageResults |-> EmptyResults, overallStats |-> EmptyResults]

\* MongoDBCache.disconnect: client.close() is awaited inside a try whose
\* catch only logs; isConnected is cleared only when close succeeded
disconnect(close) ==
  [settled |-> "resolved", closed |-> close = "ok", logged |-> close = "fails"]

\* the cleanup of a stage: disconnect inside a try whose catch only logs
StageCleanup(close) ==
  LET released == disconnect(close)
  IN [settled |-> "resolved", closed |-> released.closed,
      logged |-> released.logged \/ released.settled = "rejected"]

\* PipelineOrchestrator.cleanup between two runs: the cleanup of every stage
\* is called, each with a catch that logs, and the execution state is
\* replaced once all of them have settled; closes[s] is how the connection
\* of stage s answers close()
Cleanup ==
  /\ pc # "running"
  /\ runs > 0
  /\ lifecycle.cleanup = "idle"
  /\ \E closes \in [StageNames -> {"ok", "fails"}] :
       LET stage == [s \in StageNames |-> StageCleanup(closes[s])]
           promises == [s \in StageNames |->
                          IF stage[s].settled = "rejected" THEN "resolved"
                          ELSE stage[s].settled]
           awaited == AwaitAll(promises)
       IN /\ executionState' = IF awaited = "resolved"
                               THEN ResetExecutionState(executionState)
                               ELSE executionState
          /\ lifecycle' = [lifecycle EXCEPT
                             !.cleanup = "resolved",
                             !.closed = [s \in StageNames |->
                                           IF stage[s].closed THEN "closed" ELSE "failed"]]
  /\ UNCHANGED <<now, source, cache, index, stats, pc, options, stageIdx,
                 currentDocuments, running, outcome, runs, calls, faults,
                 started, passed, thrown, runExec, lastExec, prevExec,
                 fetch, split, collection, embed, retry, overlap>>

RerunNext ==
  \/ \E o \in PipelineOptions : ExecutePipelineBegin(o)
  \/ \E o \in RerunOptions : ExecutePipelineAgain(o)
  \/ StageSkip
  \/ StageStart
  \/ SettleClone
  \/ SettleClean
  \/ SettleUpload
  \/ PipelineFinish
  \/ Cleanup

RerunSpec == Init /\ [][RerunNext]_vars

(***************************************************************************)
(* calculateOverallStats on stage results of any totals and rates, as a    *)
(* caller that has set executionState.stageResults sees it.                *)
(***************************************************************************)
MaxStatTotal == 2     \* the largest totalDocuments of a stage result

\* the rates a stage may report: 0, 1/2, 1
StatRates == {[num |-> c, den |-> MaxStatTotal] : c \in 0..MaxStatTotal}

\* the statistics of a stage result: its total and the rates it reports
StatsOf(name) ==
  LET totals == [totalDocuments : 0..MaxStatTotal]
      With(S, rate) == {s @@ (rate :> r) : <<s, r>> \in S \X StatRates}
  IN CASE name = "clone" -> With(totals, "cacheHitRate")
       [] name = "clean" -> With(totals, "aiProcessingRate")
                              \cup With(With(totals, "aiProcessingRate"), "cacheHitRate")
       [] name = "upload" -> With(totals, "indexingSuccessRate")
                               \cup With(With(totals, "indexingSuccessRate"), "cacheHitRate")

\* the results recorded for a stage: a success with statistics, or a failure
StatResults(name) ==
  {StageResult(name, s, FALSE, <<>>, <<>>) : s \in StatsOf(name)}
    \cup {FailureRecord(name, "failed")}

StatsInit ==
  /\ StagesInit
  /\ fetch = NoFetch
  /\ split = NoSplit
  /\ collection = NoCollection
  /\ embed = NoEmbed
  /\ lifecycle = NoLifecycle
  /\ retry = NoRetry
  /\ overlap = NoOverlap
  /\ \E clone \in StatResults("clone"), clean \in StatResults("clean"), upload \in StatResults("upload") :
       executionState = [isRunning |-> FALSE, currentStage |-> "null",
                         startTime |-> Undefined,
                         stageResults |-> [n \in StageNames |->
                                             CASE n = "clone" -> clone
                                               [] n = "clean" -> clean
                                               [] n = "upload" -> upload],
                         overallStats |-> EmptyResults]

\* lines 237-292: the statistics are computed and stored
CalculateOverallStats ==
  /\ executionState.overallStats = EmptyResults
  /\ executionState' = [executionState EXCEPT
                          !.overallStats = calculateOverallStats(executionState.stageResults)]
  /\ UNCHANGED <<now, source, cache, index, stats, pc, options, stageIdx,
                 currentDocuments, running, outcome, runs, calls, faults,
                 started, passed, thrown, runExec, lastExec, prevExec,
                 fetch, split, collection, embed, lifecycle, retry, overlap>>

StatsNext == CalculateOverallStats

StatsSpec == StatsInit /\ [][StatsNext]_vars

(***************************************************************************)
(* One OpenAIService request with its retries.  makeRequest (the text      *)
(* generation behind every AI field) loops over at most maxRetries         *)
(* attempts and sleeps min(1000 * 2^(attempt - 1), 10000) ms after a       *)
(* failed attempt that is not the last; generateEmbedding calls itself     *)
(* again after sleep(1000) while maxRetries > 0.  Both are called with     *)
(* the default maxRetries.                                                 *)
(***************************************************************************)
MaxRetries == 3       \* the default of the maxRetries parameter

\* how an attempt may fail: the API call rejects, or its answer is empty
RequestErrors == {"timeout", "rateLimit", "empty"}

RECURSIVE Pow2(_)
Pow2(n) == IF n = 0 THEN 1 ELSE 2 * Pow2(n - 1)

\* the sleep after failed attempt number `attempt`
RetryDelay(operation, attempt) ==
  IF operation = "makeRequest"
  THEN Min2(1000 * Pow2(attempt - 1), 10000)
  ELSE 1000

\* whether failed attempt number `attempt` is followed by another one:
\* makeRequest stops when attempt = maxRetries, generateEmbedding when its
\* maxRetries, one less at each call, has reached 0
RetryAgain(operation, attempt) ==
  IF operation = "makeRequest"
  THEN attempt # MaxRetries
  ELSE MaxRetries - (attempt - 1) > 0

\* makeRequest or generateEmbedding is called: the first attempt is made
RequestStart(operation) ==
  /\ retry.phase = "idle"
  /\ retry' = [NoRetry EXCEPT !.operation = operation, !.phase = "calling",
                              !.attempt = 1]
  /\ UNCHANGED <<pipelineVars, fetch, split, collection, embed, lifecycle, overlap>>

\* the API answers the current attempt
AttemptSucceeds ==
  /\ retry.phase = "calling"
  /\ retry' = [retry EXCEPT !.phase = "resolved"]
  /\ UNCHANGED <<pipelineVars, fetch, split, collection, embed, lifecycle, overlap>>

\* the current attempt fails with `error`: the request sleeps before the
\* next attempt, or raises the error
AttemptFails(error) ==
  /\ retry.phase = "calling"
  /\ IF RetryAgain(retry.operation, retry.attempt)
     THEN retry' = [retry EXCEPT
                      !.phase = "sleeping",
                      !.errors = Append(@, error),
                      !.delays = Append(@, RetryDelay(retry.operation, retry.attempt))]
     ELSE retry' = [retry EXCEPT
                      !.phase = "rejected",
                      !.errors = Append(@, error),
                      !.raised = error]
  /\ UNCHANGED <<pipelineVars, fetch, split, collection, embed, lifecycle, overlap>>

\* the sleep ends and the next attempt is made
RetrySleepEnds ==
  /\ retry.phase = "sleeping"
  /\ retry' = [retry EXCEPT !.phase = "calling", !.attempt = @ + 1]
  /\ UNCHANGED <<pipelineVars, fetch, split, collection, embed, lifecycle, overlap>>

RetryNext ==
  \/ \E operation \in {"makeRequest", "generateEmbedding"} : RequestStart(operation)
  \/ AttemptSucceeds
  \/ \E error \in RequestErrors : AttemptFails(error)
  \/ RetrySleepEnds

RetrySpec == Init /\ [][RetryNext]_vars

(***************************************************************************)
(* Two executePipeline calls on one orchestrator, the second made before   *)
(* the first has settled.  Each step is what runs between two awaits.      *)
(***************************************************************************)
\* getResults of a stage: read from the stage's this.stats
OverlapGetResults(stageStats) ==
  [success |-> TRUE, totalDocuments |-> stageStats.totalDocuments,
   processed |-> stageStats.processed]

\* the synchronous start of a stage's execute: resetStats; Enrichment and
\* Indexing set totalDocuments before their first await
StageExecuteStart(stageStats, name, c) ==
  [stageStats EXCEPT
     ![name] = IF name = "clone" THEN OverlapResetStats
               ELSE [OverlapResetStats EXCEPT !.totalDocuments = FolderDocuments[c]]]

\* executePipeline up to its first await: the execution state is marked
\* running and its stage results replaced by an empty object; empty
\* folderTokens reject at once, otherwise Collection's execute starts
OverlapBegin(c, folderTokens) ==
  /\ overlap.call[c].pc = "idle"
  /\ overlap' =
       IF folderTokens = 0
       THEN [overlap EXCEPT !.isRunning = FALSE,
                            !.stageResults = EmptyResults,
                            !.call[c].pc = "rejected"]
       ELSE [overlap EXCEPT !.isRunning = TRUE,
                            !.stageResults = EmptyResults,
                            !.stats = StageExecuteStart(@, StageOrder[1], c),
                            !.call[c].pc = "running",
                            !.call[c].stage = 1]
  /\ UNCHANGED <<pipelineVars, fetch, split, collection, embed, lifecycle, retry>>

\* the stage processes the call's documents and counts them in this.stats
OverlapStageWork(c) ==
  /\ overlap.call[c].pc = "running"
  /\ ~overlap.call[c].worked
  /\ LET name == StageOrder[overlap.call[c].stage]
     IN overlap' =
          [overlap EXCEPT
             !.stats[name].totalDocuments =
                IF name = "clone" THEN FolderDocuments[c] ELSE @,
             !.stats[name].processed = @ + FolderDocuments[c],
             !.call[c].worked = TRUE]
  /\ UNCHANGED <<pipelineVars, fetch, split, collection, embed, lifecycle, retry>>

\* the stage's execute returns getResults; the loop records it under the
\* stage's name and either starts the next stage or finishes: isRunning
\* false, the result carries executionState.stageResults
OverlapStageSettled(c) ==
  /\ overlap.call[c].pc = "running"
  /\ overlap.call[c].worked
  /\ LET i == overlap.call[c].stage
         name == StageOrder[i]
         stageResults == [n \in DOMAIN overlap.stageResults \cup {name} |->
                            IF n = name THEN OverlapGetResults(overlap.stats[name])
                            ELSE overlap.stageResults[n]]
     IN overlap' =
          IF i < Len(StageOrder)
          THEN [overlap EXCEPT !.stageResults = stageResults,
                               !.stats = StageExecuteStart(@, StageOrder[i + 1], c),
                               !.call[c].stage = i + 1,
                               !.call[c].worked = FALSE]
          ELSE [overlap EXCEPT !.stageResults = stageResults,
                               !.isRunning = FALSE,
                               !.call[c].pc = "resolved",
                               !.call[c].stages = stageResults]
  /\ UNCHANGED <<pipelineVars, fetch, split, collection, embed, lifecycle, retry>>

OverlapNext ==
  \/ \E c \in Calls, folderTokens \in 0..1 : OverlapBegin(c, folderTokens)
  \/ \E c \in Calls : OverlapStageWork(c)
  \/ \E c \in Calls : OverlapStageSettled(c)

OverlapSpec == Init /\ [][OverlapNext]_vars

(***************************************************************************)
(* CleanStage.splitLargeDocuments on one document of any content, with any *)
(* configured documentSplitSize.                                           *)
(***************************************************************************)
\* the contents: up to MaxSentences sentences of 1..MaxSentenceLength
\* characters each
Contents ==
  UNION {[1..n -> 1..MaxSentenceLength] : n \in 0..MaxSentences}

\* the calls of the splitting pass that are followed
SplitInputs ==
  {[content |-> c, maxTokens |-> m, done |-> FALSE, documents |-> <<>>] :
     c \in Contents, m \in 1..MaxThreshold}

SplitInit ==
  /\ PipelineInit
  /\ fetch = NoFetch
  /\ split \in SplitInputs
  /\ collection = NoCollection
  /\ embed = NoEmbed
  /\ lifecycle = NoLifecycle
  /\ retry = NoRetry
  /\ overlap = NoOverlap

\* splitLargeDocuments([document], batchSize) with
\* config.performance.documentSplitSize = split.maxTokens
SplitLargeDocuments ==
  /\ ~split.done
  /\ LET document == [InputDocument("d1", Undefined) EXCEPT !.content = split.content]
         r == splitLargeDocuments(CleanResetStats, <<document>>, split.maxTokens)
     IN split' = [split EXCEPT !.done = TRUE, !.documents = r.documents]
  /\ UNCHANGED <<pipelineVars, fetch, collection, embed, lifecycle, retry, overlap>>

SplitNext == SplitLargeDocuments

SplitSpec == SplitInit /\ [][SplitNext]_vars

(***************************************************************************)
(* MongoDBCache on the collection as the server holds it: a list of        *)
(* entries, each with its documentId.  Every operation is one atomic       *)
(* single-document command (or, for the batch, an ordered bulkWrite).      *)
(***************************************************************************)
\* the positions of the entries with the given documentId
Matching(entries, documentId) ==
  {k \in 1..Len(entries) : entries[k].documentId = documentId}

First(S) == CHOOSE k \in S : \A j \in S : k <= j

\* a put that keeps the derived fields of the entry it finds
MergeOne(entries, documentId, replacement) ==
  LET found == Matching(entries, documentId)
  IN IF found = {} THEN Append(entries, replacement)
     ELSE [entries EXCEPT ![First(found)] =
             [replacement EXCEPT !.entry.aiResults = entries[First(found)].entry.aiResults]]

\* collection.replaceOne({documentId}, replacement, {upsert: true})
replaceOne(entries, documentId, replacement) ==
  LET found == Matching(entries, documentId)
  IN IF found = {} THEN Append(entries, replacement)
     ELSE [entries EXCEPT ![First(found)] = replacement]

\* collection.updateOne({documentId}, {$set: {aiResults, updatedAt}})
updateOne(entries, documentId, aiResults, now_) ==
  LET found == Matching(entries, documentId)
  IN IF found = {} THEN entries
     ELSE [entries EXCEPT ![First(found)].entry.aiResults = aiResults,
                          ![First(found)].entry.updatedAt = now_]

\* collection.deleteOne({documentId})
deleteOne(entries, documentId) ==
  LET found == Matching(entries, documentId)
  IN IF found = {} THEN entries
     ELSE [k \in 1..(Len(entries) - 1) |->
             IF k < First(found) THEN entries[k] ELSE entries[k + 1]]

\* the replacement document cacheDocument and batchCacheDocuments build
Replacement(document, aiResults, now_) ==
  [documentId |-> document.id, entry |-> CacheEntry(document, aiResults, now_)]

\* the bulkWrite of batchCacheDocuments: its replaceOne operations in order
RECURSIVE bulkWrite(_, _, _, _)
bulkWrite(entries, documents, aiResults, now_) ==
  IF documents = <<>> THEN entries
  ELSE bulkWrite(replaceOne(entries, Head(documents).id,
                            Replacement(Head(documents), Head(aiResults), now_)),
                 Tail(documents), Tail(aiResults), now_)

\* the documents and AI results callers hand to the cache
CacheDocuments == {InputDocument(d, mt) : d \in Docs, mt \in {Undefined, 1}}
CacheAIResults ==
  {[kind |-> "blank", error |-> FALSE], [kind |-> "real", error |-> FALSE]}

\* the collection after an operation, with the record of that operation
Written(op, entries, documents, aiResults) ==
  [entries |-> entries, ops |-> collection.ops + 1,
   last |-> [op |-> op, documents |-> documents, aiResults |-> aiResults,
             at |-> now, batch |-> <<>>, threw |-> FALSE]]

\* MongoDBCache.cacheDocument(document, processedContent, aiResults)
CacheDocument ==
  /\ collection.ops < MaxCacheOps
  /\ \E document \in CacheDocuments, aiResults \in CacheAIResults :
       collection' = Written("cacheDocument",
                             replaceOne(collection.entries, document.id,
                                        Replacement(document, aiResults, now)),
                             <<document>>, <<aiResults>>)
  /\ UNCHANGED <<pipelineVars, fetch, split, embed, lifecycle, retry, overlap>>

\* the items of a documentBatch: {document, processedContent, aiResults},
\* or a malformed item, one that has no document
BatchItems ==
  {[malformed |-> FALSE, document |-> d, aiResults |-> a] :
     d \in CacheDocuments, a \in CacheAIResults}
  \cup {[malformed |-> TRUE]}

WellFormed(item) == ~item.malformed

\* MongoDBCache.batchCacheDocuments(documentBatch), batches of two.  The
\* replaceOne operations are built by documentBatch.map before anything is
\* sent: calculateHash(undefined) throws there for an item without a
\* document, the catch logs and rethrows, and bulkWrite is never called.
BatchCacheDocuments ==
  /\ collection.ops < MaxCacheOps
  /\ \E i1 \in BatchItems, i2 \in BatchItems :
       LET documentBatch == <<i1, i2>>
           threw == \E k \in 1..2 : documentBatch[k].malformed
           documents == IF threw THEN <<>> ELSE <<i1.document, i2.document>>
           aiResults == IF threw THEN <<>> ELSE <<i1.aiResults, i2.aiResults>>
       IN collection' =
            [Written("batchCacheDocuments",
                     bulkWrite(collection.entries, documents, aiResults, now),
                     documents, aiResults)
               EXCEPT !.last.batch = documentBatch, !.last.threw = threw]
  /\ UNCHANGED <<pipelineVars, fetch, split, embed, lifecycle, retry, overlap>>

\* MongoDBCache.updateAIResults(documentId, aiResults)
UpdateAIResults ==
  /\ collection.ops < MaxCacheOps
  /\ \E d \in Docs, aiResults \in CacheAIResults :
       collection' = Written("updateAIResults",
                             updateOne(collection.entries, DocId(d), aiResults, now),
                             <<>>, <<>>)
  /\ UNCHANGED <<pipelineVars, fetch, split, embed, lifecycle, retry, overlap>>

\* MongoDBCache.removeDocumentCache(documentId)
RemoveDocumentCache ==
  /\ collection.ops < MaxCacheOps
  /\ \E d \in Docs :
       collection' = Written("removeDocumentCache",
                             deleteOne(collection.entries, DocId(d)), <<>>, <<>>)
  /\ UNCHANGED <<pipelineVars, fetch, split, embed, lifecycle, retry, overlap>>

\* time passes between two operations
CacheTick ==
  /\ collection.ops < MaxCacheOps
  /\ now < MaxTime
  /\ now' = now + 1
  /\ UNCHANGED <<source, cache, index, stats, executionState, pc, options,
                 stageIdx, currentDocuments, running, outcome, runs, calls,
                 faults, started, passed, thrown, runExec, lastExec, prevExec,
                 fetch, split, collection, embed, lifecycle, retry, overlap>>

CacheNext ==
  \/ CacheDocument
  \/ BatchCacheDocuments
  \/ UpdateAIResults
  \/ RemoveDocumentCache
  \/ CacheTick

CacheSpec == Init /\ [][CacheNext]_vars

(***************************************************************************)
(* Properties of executePipeline (checked under Spec).                     *)
(***************************************************************************)
StageResults == executionState.stageResults
Position(name) == CHOOSE i \in 1..Len(StageOrder) : StageOrder[i] = name

\* C1: in every executePipeline run the stages are started in the order
\* clone, clean, upload; a stage's execute is called only when no earlier
\* execute of the run is still unsettled, so no two executions overlap.
C1_StagesSequential ==
  /\ [](/\ Cardinality(running) <= 1
        /\ \A i, j \in 1..Len(started) :
             i < j => Position(started[i]) < Position(started[j]))
  /\ [][\A name \in StageNames :
          (name \notin running /\ name \in running') => running = {}]_vars

\* a run in which all three stages were executed, one after the other
C1_Witness ==
  /\ pc = "resolved"
  /\ started = StageOrder
  /\ DOMAIN runExec = StageNames

\* the documents of the most recent stage before `name` that completed and
\* returned a document set; null when there is none
ProducedBefore(name) ==
  LET earlier == {e \in DOMAIN StageResults :
                    /\ Position(e) < Position(name)
                    /\ StageResults[e].success
                    /\ StageResults[e].hasDocuments}
  IN IF earlier = {} THEN NullDocuments
     ELSE LET last == CHOOSE e \in earlier :
                        \A f \in earlier : Position(f) <= Position(e)
          IN Documents(StageResults[last].documents)

\* C2: the documents handed to clean and to upload are exactly the
\* `documents` of the most recent earlier stage of the run that completed
\* and returned a document set (clone's for clean, clean's for upload when
\* these completed).
C2_DocumentsPassed ==
  \A name \in DOMAIN passed :
    name # "clone" => passed[name] = ProducedBefore(name)

\* clean was given clone's documents and upload clean's, all non-empty
C2_Witness ==
  /\ pc = "resolved"
  /\ StageNames \subseteq DOMAIN passed
  /\ StageNames \subseteq DOMAIN StageResults
  /\ StageResults["clone"].documents # <<>>
  /\ passed["clean"] = Documents(StageResults["clone"].documents)
  /\ passed["upload"] = Documents(StageResults["clean"].documents)
  /\ StageResults["clean"].documents # StageResults["clone"].documents

\* C3: with failFast unset or true, when a stage's execute has thrown the
\* call is rejected with an error naming that stage, the stage is recorded
\* with success = false, and no later stage's execute is called in the run.
C3_FailFastRejects ==
  (thrown # {} /\ options.failFast \in {"unset", "true"}) =>
    \E name \in thrown :
      /\ thrown = {name}
      /\ pc = "rejected"
      /\ outcome.kind = "rejected"
      /\ outcome.stage = name
      /\ name \in DOMAIN StageResults
      /\ ~StageResults[name].success
      /\ StageResults[name].error = outcome.message
      /\ running = {}
      /\ started # <<>>
      /\ started[Len(started)] = name

\* clean threw in a run with failFast = true that also has an upload stage
C3_Witness ==
  /\ pc = "rejected"
  /\ thrown = {"clean"}
  /\ options.failFast = "true"
  /\ "upload" \notin options.skipStages
  /\ started = <<"clone", "clean">>

AllCachedUnmodified(exec) ==
  /\ exec.up
  /\ exec.input # <<>>
  /\ \A i \in 1..Len(exec.input) :
       LET document == exec.input[i]
       IN /\ document.id \in DOMAIN exec.storeBefore
          /\ document.modified_time \in Times
          /\ exec.storeBefore[document.id].lastModified \in Times
          /\ document.modified_time <= exec.storeBefore[document.id].lastModified

\* C5: a run with no force flag over documents that are all cached and
\* unmodified reports cachedDocuments = totalDocuments and newDocuments = 0,
\* fetches nothing, completes successfully without any AI or embedding
\* call, and has an overall cacheHitRate of 1.
C5_NoOpRunCompletes ==
  ( /\ pc \in {"resolved", "rejected"}
    /\ ~options.forceFullUpdate /\ ~options.forceReprocess /\ ~options.forceReindex
    /\ options.skipStages = {}
    /\ "clone" \in DOMAIN runExec
    /\ AllCachedUnmodified(runExec["clone"]) ) =>
      /\ runExec["clone"].result.stats.cachedDocuments =
           runExec["clone"].result.stats.totalDocuments
      /\ runExec["clone"].result.stats.newDocuments = 0
      /\ \A name \in DOMAIN runExec : runExec[name].called = {}
      /\ pc = "resolved"
      /\ outcome.result.success
      /\ FracEq(outcome.result.overallStats.cacheHitRate, One)

(***************************************************************************)
(* Properties of the single stages (checked under StageSpec).              *)
(***************************************************************************)
\* C6: when Enrichment is executed twice in a row on the same documents
\* with forceReprocess = false (cache and AI provider answering both
\* times), the second execution serves every document from the cache:
\* cachedDocuments = totalDocuments and the AI provider is not called.
C6_EnrichmentIdempotent ==
  ( /\ prevExec.stage = "clean" /\ lastExec.stage = "clean"
    /\ ~prevExec.threw /\ ~lastExec.threw
    /\ ~prevExec.force /\ ~lastExec.force
    /\ prevExec.input = lastExec.input
    /\ faults = 0 ) =>
      /\ lastExec.result.stats.cachedDocuments = lastExec.result.stats.totalDocuments
      /\ lastExec.called = {}

\* the documents of an Indexing execution whose embedding was computed in
\* that execution, without error
FreshlyEmbedded(exec) ==
  {exec.documents[i].id : i \in
     {j \in 1..Len(exec.documents) :
        /\ exec.documents[j].cached = "false"
        /\ ~exec.documents[j].embeddingError
        /\ exec.documents[j].embedding = RealEmbedding}}

\* C7: once Indexing has computed a document's embedding without error, a
\* later Indexing of the same document with forceReindex = false finds the
\* embedding in the cache: a cache hit is counted and the embedding is not
\* requested again.
C7_EmbeddingReused ==
  ( /\ prevExec.stage = "upload" /\ lastExec.stage = "upload"
    /\ ~lastExec.force
    /\ faults = 0 ) =>
      \A id \in FreshlyEmbedded(prevExec) \cap Ids(lastExec.input) :
        /\ id \notin lastExec.called
        /\ lastExec.result.stats.cachedEmbeddings >= 1

\* what the cache answered to Collection for the i-th listed document
Found(exec, i) == exec.up /\ exec.input[i].id \in DOMAIN exec.storeBefore
CachedTime(exec, i) == exec.storeBefore[exec.input[i].id].lastModified

\* the row of the decision table the i-th listed document falls in; "any"
\* when a timestamp cannot be parsed, a case the table leaves open
Row(exec, i) ==
  IF ~Found(exec, i) THEN "new"
  ELSE IF exec.force THEN "updated"
  ELSE IF exec.input[i].modified_time \in Times /\ CachedTime(exec, i) \in Times
  THEN (IF exec.input[i].modified_time > CachedTime(exec, i) THEN "updated"
        ELSE "cached")
  ELSE "any"

InRow(exec, rows) == {i \in 1..Len(exec.input) : Row(exec, i) \in rows}

\* C8: Collection follows the decision table.  Not cached: fetched, counted
\* new.  Cached and forced: fetched, counted updated.  Cached, not forced,
\* source time later than the cached last-modified time: fetched, counted
\* updated.  Cached, not forced, not later: not fetched, counted cached.
\* Exactly one of the three counters is incremented per document.
C8_DecisionTable ==
  (lastExec.stage = "clone" /\ ~lastExec.threw) =>
    LET st == lastExec.result.stats
        open == Cardinality(InRow(lastExec, {"any"}))
    IN /\ st.newDocuments = Cardinality(InRow(lastExec, {"new"}))
       /\ st.updatedDocuments >= Cardinality(InRow(lastExec, {"updated"}))
       /\ st.updatedDocuments <= Cardinality(InRow(lastExec, {"updated"})) + open
       /\ st.cachedDocuments >= Cardinality(InRow(lastExec, {"cached"}))
       /\ st.cachedDocuments <= Cardinality(InRow(lastExec, {"cached"})) + open
       /\ st.newDocuments + st.updatedDocuments + st.cachedDocuments
            = Len(lastExec.input)
       /\ st.totalDocuments = Len(lastExec.input)
       /\ Cardinality(lastExec.called) = st.newDocuments + st.updatedDocuments
       /\ \A i \in InRow(lastExec, {"new", "updated"}) :
            lastExec.input[i].id \in lastExec.called
       /\ \A i \in InRow(lastExec, {"cached"}) :
            lastExec.input[i].id \notin lastExec.called

\* an unforced Collection that met a newer document and an unchanged one
C8_Witness ==
  /\ lastExec.stage = "clone"
  /\ ~lastExec.threw
  /\ ~lastExec.force
  /\ InRow(lastExec, {"updated"}) # {}
  /\ InRow(lastExec, {"cached"}) # {}
  /\ lastExec.result.stats.updatedDocuments = 1
  /\ lastExec.result.stats.cachedDocuments = 1

\* C9: when the document's modification time or the cache entry's time
\* cannot be parsed, Collection treats the cached document as changed: it
\* is fetched again and counted updated, never skipped as cached.
C9_UnparseableRefetched ==
  (lastExec.stage = "clone" /\ ~lastExec.threw) =>
    \A i \in 1..Len(lastExec.input) :
      ( /\ Found(lastExec, i)
        /\ \/ lastExec.input[i].modified_time \notin Times
           \/ CachedTime(lastExec, i) \notin Times ) =>
          /\ lastExec.input[i].id \in lastExec.called
          /\ lastExec.result.stats.updatedDocuments >= 1

\* C10: in every Collection result
\* failedDocuments + cachedDocuments + newDocuments + updatedDocuments
\* equals totalDocuments.
C10_CollectionConservation ==
  (lastExec.stage = "clone" /\ ~lastExec.threw) =>
    LET st == lastExec.result.stats
    IN st.failedDocuments + st.cachedDocuments + st.newDocuments
         + st.updatedDocuments = st.totalDocuments

\* C11: in every Enrichment result over a non-empty input
\* failedDocuments + cachedDocuments + aiProcessedDocuments equals
\* totalDocuments, whatever the cache holds and whichever AI calls and
\* cache writes fail.
C11_EnrichmentConservation ==
  (lastExec.stage = "clean" /\ ~lastExec.threw) =>
    LET st == lastExec.result.stats
    IN /\ st.totalDocuments = Len(lastExec.input)
       /\ st.failedDocuments + st.cachedDocuments + st.aiProcessedDocuments
            = st.totalDocuments

\* an Enrichment of two documents: one is served from the cache, the AI
\* call of the other fails
C11_Witness ==
  /\ lastExec.stage = "clean"
  /\ ~lastExec.threw
  /\ Len(lastExec.input) = 2
  /\ lastExec.result.stats.cachedDocuments = 1
  /\ lastExec.result.stats.aiProcessedDocuments = 1
  /\ lastExec.result.errors # <<>>

\* C12: in every Indexing result over a non-empty input
\* failedDocuments + cachedEmbeddings + embeddedDocuments equals
\* totalDocuments, also when embedding calls or index batches fail.
C12_IndexingConservation ==
  (lastExec.stage = "upload" /\ ~lastExec.threw /\ Len(lastExec.input) > 0) =>
    LET st == lastExec.result.stats
    IN st.failedDocuments + st.cachedEmbeddings + st.embeddedDocuments
         = st.totalDocuments

\* the documents of an execution's output made from the input document id
\* (the document itself, or its parts when it was split)
OutputOf(exec, id) ==
  {k \in 1..Len(exec.result.documents) : exec.result.documents[k].id.base = id.base}

\* the entries of the result's errors list for the input document id
ErrorsOf(exec, id) ==
  {k \in 1..Len(exec.result.errors) : exec.result.errors[k].documentId.base = id.base}

\* the AI collaborator was asked about the input document id and failed
AIFailed(exec, id) == id \in exec.called /\ exec.answers.doc[id] # "ok"

\* C14: a document whose AI call fails stays in the Enrichment output (as
\* itself or as its parts) with the degraded fields: ai_title = its title,
\* empty summary, empty keywords, default category; the error is in the
\* result's errors list; and the documents whose AI call succeeds carry the
\* AI's fields and no error.
C14_AIFailureDegrades ==
  (lastExec.stage = "clean" /\ ~lastExec.threw /\ lastExec.up) =>
    \A i \in 1..Len(lastExec.input) :
      LET id == lastExec.input[i].id
          out == lastExec.result.documents
      IN (id \in lastExec.called /\ HasContent(lastExec.input[i])) =>
           /\ OutputOf(lastExec, id) # {}
           /\ IF AIFailed(lastExec, id)
              THEN /\ \A k \in OutputOf(lastExec, id) : out[k].ai = "degraded" /\ out[k].error
                   /\ ErrorsOf(lastExec, id) # {}
              ELSE /\ \A k \in OutputOf(lastExec, id) : out[k].ai = "real" /\ ~out[k].error
                   /\ ErrorsOf(lastExec, id) = {}

\* an Enrichment of d1 and d2 in which the AI call of d1 fails and that of
\* d2 succeeds
C14_Witness ==
  /\ lastExec.stage = "clean"
  /\ ~lastExec.threw
  /\ Len(lastExec.input) = 2
  /\ AIFailed(lastExec, DocId("d1"))
  /\ DocId("d2") \in lastExec.called
  /\ ~AIFailed(lastExec, DocId("d2"))
  /\ OutputOf(lastExec, DocId("d1")) # {}

\* the embedding call was made for the input document id and failed
EmbeddingFailed(exec, id) == id \in exec.called /\ exec.answers.doc[id] # "ok"

\* every bulk write of the execution succeeded
AllBatchesWritten(exec) ==
  \A b \in 1..Len(exec.answers.batch) : exec.answers.batch[b] = "ok"

\* C15: when the embedding call fails for k of the n uncached documents of
\* an Indexing (and the index accepts every batch), the k documents are
\* written to the index with the all-zero vector of the fixed width and are
\* counted in failedDocuments, the other n - k documents are written with
\* their real vectors, and embeddingGenerationRate is (n - k) / n.
C15_EmbeddingFailureDegrades ==
  (/\ lastExec.stage = "upload"
   /\ ~lastExec.threw
   /\ Len(lastExec.input) > 0
   /\ AllBatchesWritten(lastExec)) =>
    LET n == Cardinality(lastExec.called)
        k == Cardinality({id \in lastExec.called : EmbeddingFailed(lastExec, id)})
        st == lastExec.result.stats
    IN /\ \A id \in lastExec.called :
            /\ id \in DOMAIN index
            /\ index[id] = IF EmbeddingFailed(lastExec, id)
                           THEN [kind |-> "zero", width |-> EmbeddingWidth]
                           ELSE [kind |-> "real", width |-> EmbeddingWidth]
       /\ st.failedDocuments = k
       /\ st.embeddedDocuments = n - k
       /\ n > 0 => FracEq(st.embeddingGenerationRate, [num |-> n - k, den |-> n])

\* an Indexing of d1 and d2 in which the embedding call of d1 fails
C15_Witness ==
  /\ lastExec.stage = "upload"
  /\ Len(lastExec.input) = 2
  /\ AllBatchesWritten(lastExec)
  /\ EmbeddingFailed(lastExec, DocId("d1"))
  /\ ~EmbeddingFailed(lastExec, DocId("d2"))
  /\ index[DocId("d1")] = ZeroVector
  /\ lastExec.result.stats.embeddingGenerationRate = [num |-> 1, den |-> 2]

\* the number of documents an execution counted as served from the cache
CountedCached(exec) ==
  IF exec.stage = "upload" THEN exec.result.stats.cachedEmbeddings
  ELSE exec.result.stats.cachedDocuments

\* C21: cache reads fail open.  A stage executed while the cache server is
\* unreachable does not fail for that reason, counts no document as cached
\* and does its work (content fetch, AI call, embedding call) for every
\* document it was given.
C21_CacheReadsFailOpen ==
  (lastExec.stage # "none" /\ ~lastExec.up) =>
    /\ (lastExec.stage # "clone" /\ Len(lastExec.input) > 0) => ~lastExec.threw
    /\ (~lastExec.threw /\ Len(lastExec.input) > 0) =>
         /\ lastExec.result.success
         /\ CountedCached(lastExec) = 0
         /\ lastExec.called = Ids(lastExec.input)
    /\ \A id \in DOMAIN lastExec.storeBefore :
         ~getCachedDocument(lastExec.storeBefore, lastExec.up, id).found

\* a Collection executed during an outage of the cache although the cache
\* holds an entry for both documents
C21_Witness ==
  /\ lastExec.stage = "clone"
  /\ ~lastExec.up
  /\ ~lastExec.threw
  /\ DOMAIN lastExec.storeBefore = {DocId("d1"), DocId("d2")}
  /\ lastExec.called = {DocId("d1"), DocId("d2")}
  /\ lastExec.result.stats.newDocuments = 2

\* C23: a stage executed with its force flag set does fresh work for every
\* input document, whatever the cache holds: Collection fetches every listed
\* document, Enrichment calls the AI for every document, Indexing requests
\* an embedding for every document, and nothing is counted as cached.
C23_ForceBypassesCache ==
  (lastExec.stage # "none" /\ lastExec.force /\ ~lastExec.threw
     /\ Len(lastExec.input) > 0) =>
    /\ lastExec.called = Ids(lastExec.input)
    /\ CountedCached(lastExec) = 0

\* a forced Enrichment of two documents whose AI results the reachable
\* cache holds
C23_Witness ==
  /\ lastExec.stage = "clean"
  /\ lastExec.force
  /\ lastExec.up
  /\ Len(lastExec.input) = 2
  /\ \A i \in 1..2 :
       /\ lastExec.input[i].id \in DOMAIN lastExec.storeBefore
       /\ lastExec.storeBefore[lastExec.input[i].id].aiResults.kind # "undefined"
  /\ lastExec.called = Ids(lastExec.input)

\* C34: the Indexing stage result's errors list contains one entry for every
\* document whose embedding generation failed or whose index write failed
\* in that execution; stated here for the embedding failures: every input
\* document whose embedding call failed has an entry in errors.
C34_IndexingErrorsListed ==
  (lastExec.stage = "upload" /\ ~lastExec.threw /\ Len(lastExec.input) > 0) =>
    \A id \in lastExec.called :
      EmbeddingFailed(lastExec, id) =>
        \E e \in 1..Len(lastExec.result.errors) :
          lastExec.result.errors[e].documentId = id

\* what the code does: the errors list of an Indexing result is empty
C34_IndexingErrorsEmpty ==
  lastExec.stage = "upload" => lastExec.result.errors = <<>>

\* the counts and rates of a stage result are all 0
RateFields ==
  {"cacheHitRate", "aiProcessingRate", "embeddingGenerationRate", "indexingSuccessRate"}

AllZero(st) ==
  \A f \in DOMAIN st :
    IF f \in RateFields THEN st[f].num = 0 ELSE st[f] = 0

\* C35: a stage result describes only the execution that produced it:
\* executing Enrichment or Indexing with an empty document set returns a
\* successful stage result with totalDocuments = 0 and every count and rate
\* equal to 0, whatever earlier executions of the same stage object
\* processed.
C35_EmptyExecutionReportsZero ==
  (lastExec.stage \in {"clean", "upload"} /\ Len(lastExec.input) = 0) =>
    /\ ~lastExec.threw
    /\ lastExec.result.success
    /\ lastExec.result.stats.totalDocuments = 0
    /\ AllZero(lastExec.result.stats)

\* the Indexing half alone: an Indexing of no document after an Indexing
\* that processed documents
C35_EmptyIndexingReportsZero ==
  (lastExec.stage = "upload" /\ Len(lastExec.input) = 0) =>
    /\ ~lastExec.threw
    /\ lastExec.result.stats.totalDocuments = 0
    /\ AllZero(lastExec.result.stats)

\* the Enrichment half alone: an Enrichment of no document returns a result
C35_EmptyEnrichmentReturns ==
  (lastExec.stage = "clean" /\ Len(lastExec.input) = 0) => ~lastExec.threw

\* C37: cache and index stay consistent: every document for which Indexing
\* wrote a cache entry was successfully written to the search index, so a
\* later non-forced run never skips as cached a document that is absent
\* from the index.
C37_CachedImpliesIndexed ==
  (lastExec.stage = "upload" /\ ~lastExec.threw /\ lastExec.up) =>
    \A i \in 1..Len(lastExec.documents) :
      ToCache(lastExec.documents[i]) =>
        lastExec.documents[i].id \in DOMAIN index

\* the consequence alone: a document a non-forced Indexing skipped as cached
\* is in the index
C37_SkippedImpliesIndexed ==
  (lastExec.stage = "upload" /\ ~lastExec.threw /\ ~lastExec.force) =>
    \A i \in 1..Len(lastExec.documents) :
      lastExec.documents[i].cached = "true" =>
        lastExec.documents[i].id \in DOMAIN index

\* with every bulk write succeeding, the cached documents are indexed
C37_CachedImpliesIndexedWithoutFailure ==
  (/\ lastExec.stage = "upload" /\ ~lastExec.threw /\ lastExec.up
   /\ \A k \in DOMAIN lastExec.answers.batch : lastExec.answers.batch[k] = "ok"
   /\ prevExec.stage = "none") =>
    \A i \in 1..Len(lastExec.documents) :
      ToCache(lastExec.documents[i]) =>
        lastExec.documents[i].id \in DOMAIN index

\* no non-forced Indexing skips a document as cached: the entry it wrote
\* holds the embedding under originalEmbedding, where its lookup does not read
C37_IndexingNeverSkips ==
  (lastExec.stage = "upload" /\ ~lastExec.threw /\ ~lastExec.force) =>
    \A i \in 1..Len(lastExec.documents) : lastExec.documents[i].cached # "true"

\* the input documents of the execution whose AI call failed
AIFailedDocuments(exec) ==
  {exec.input[i].id : i \in {j \in 1..Len(exec.input) : AIFailed(exec, exec.input[j].id)}}

\* C38: Enrichment never persists a degraded AI result (one produced because
\* the AI calls for the document failed) to the cache as that document's AI
\* results, and counts such a document as failed rather than AI-processed; a
\* later non-forced Enrichment of the same document calls the AI
\* collaborator again.
C38_DegradedNotPersisted ==
  /\ (lastExec.stage = "clean" /\ ~lastExec.threw /\ lastExec.up) =>
       /\ \A id \in AIFailedDocuments(lastExec) :
            id \in DOMAIN cache => cache[id].aiResults.kind # "degraded"
       /\ lastExec.result.stats.failedDocuments
            >= Cardinality(AIFailedDocuments(lastExec))
       /\ lastExec.result.stats.aiProcessedDocuments
            <= Cardinality(lastExec.called \ AIFailedDocuments(lastExec))
  /\ (lastExec.stage = "clean" /\ ~lastExec.threw /\ lastExec.up) =>
       \A i \in 1..Len(lastExec.input) :
         lastExec.input[i].id \in AIFailedDocuments(lastExec) =>
           ~CleanCacheHit(lastExec.input[i], FALSE, cache, TRUE)

\* the persistence alone
C38_CacheHoldsNoDegraded ==
  (lastExec.stage = "clean" /\ ~lastExec.threw /\ lastExec.up) =>
    \A id \in AIFailedDocuments(lastExec) :
      id \in DOMAIN cache => cache[id].aiResults.kind # "degraded"

\* the counting alone
C38_FailedNotCountedProcessed ==
  (lastExec.stage = "clean" /\ ~lastExec.threw /\ lastExec.up) =>
    /\ lastExec.result.stats.failedDocuments
         >= Cardinality(AIFailedDocuments(lastExec))
    /\ lastExec.result.stats.aiProcessedDocuments
         <= Cardinality(lastExec.called \ AIFailedDocuments(lastExec))

\* the later execution alone: a non-forced Enrichment of the document,
\* started on the cache the execution left, does not take it from the cache
C38_FailedAskedAgain ==
  (lastExec.stage = "clean" /\ ~lastExec.threw /\ lastExec.up) =>
    \A i \in 1..Len(lastExec.input) :
      lastExec.input[i].id \in AIFailedDocuments(lastExec) =>
        ~CleanCacheHit(lastExec.input[i], FALSE, cache, TRUE)

\* the documents whose AI call succeeded are counted as AI-processed and
\* their results are what the cache is given
C38_RealResultsPersisted ==
  (lastExec.stage = "clean" /\ ~lastExec.threw /\ lastExec.up) =>
    \A id \in lastExec.called \ AIFailedDocuments(lastExec) :
      id \in DOMAIN cache => cache[id].aiResults.kind = "real"

(***************************************************************************)
(* Properties of the stages inside a pipeline run (checked under Spec).    *)
(***************************************************************************)
\* the number of documents in the batches of an Indexing whose bulk write
\* answered `how`
InBatches(exec, how) ==
  LET batches == chunkArray(exec.documents, BatchSize)
  IN SumSeq([b \in 1..Len(batches) |->
               IF exec.answers.batch[b] = how THEN Len(batches[b]) ELSE 0])

\* C16: when the bulk write of a batch throws during an Indexing, every
\* document of every other batch, the later ones included, is written to the
\* index; the stage returns a result with success = true; and
\* failedDocuments is the number of failed embeddings plus the number of
\* documents in the batches that threw.
C16_IndexBatchFailureIsolated ==
  (lastExec.stage = "upload" /\ Len(lastExec.input) > 0) =>
    LET batches == chunkArray(lastExec.documents, BatchSize)
        st == lastExec.result.stats
        k == Cardinality({id \in lastExec.called : EmbeddingFailed(lastExec, id)})
    IN /\ ~lastExec.threw
       /\ lastExec.result.success
       /\ Len(batches) = Len(lastExec.answers.batch)
       /\ \A b \in 1..Len(batches) :
            lastExec.answers.batch[b] = "ok" =>
              \A i \in 1..Len(batches[b]) :
                /\ batches[b][i].id \in DOMAIN index
                /\ index[batches[b][i].id] = batches[b][i].embedding
       /\ st.indexedDocuments = InBatches(lastExec, "ok")
       /\ st.failedDocuments = k + InBatches(lastExec, "throws")

\* an Indexing of three documents in two batches: the bulk write of the
\* first batch throws, the second batch is written
C16_Witness ==
  /\ lastExec.stage = "upload"
  /\ Len(lastExec.documents) = 3
  /\ lastExec.answers.batch = <<"throws", "ok">>
  /\ lastExec.documents[3].id \in DOMAIN index
  /\ lastExec.documents[1].id \notin DOMAIN index
  /\ lastExec.result.stats.failedDocuments = 2

C18_FilteredByEnrichment ==
  ("upload" \in DOMAIN passed /\ "clean" \in DOMAIN runExec /\ ~runExec["clean"].threw) =>
    \A i \in 1..Len(passed["upload"].docs) : HasContent(passed["upload"].docs[i])

\* the input documents of an execution that have empty content
EmptyInputs(exec) == {i \in 1..Len(exec.input) : ~HasContent(exec.input[i])}

C19_EmptyContentRemoved ==
  (lastExec.stage = "clean" /\ ~lastExec.threw) =>
    /\ \A k \in 1..Len(lastExec.result.documents) :
         HasContent(lastExec.result.documents[k])
    /\ \A i \in EmptyInputs(lastExec) : OutputOf(lastExec, lastExec.input[i].id) = {}

(***************************************************************************)
(* Properties of fetchDocumentContents (checked under FetchSpec).          *)
(***************************************************************************)
\* the entry recorded for the document at position i
EntryOf(i) ==
  {k \in 1..Len(fetch.stats.processedDocuments) :
     fetch.stats.processedDocuments[k].document.id = fetch.documents[i].id}

\* the content fetches that were issued and have not answered yet
InFlight == {i \in 1..Len(fetch.promise) : fetch.promise[i] = "pending"}

\* C25: the number of collaborator calls in flight never exceeds the
\* stage's window; for Collection: at every moment of fetchDocumentContents
\* at most batchSize content fetches are in flight, however many documents
\* are fetched.
C25_FetchesWithinWindow == Cardinality(InFlight) <= BatchSize

\* C13: a content fetch that fails, whenever it fails, never ends the
\* process; and once the fetching is over, every document whose fetch failed
\* is recorded as a failure and every other document has an entry of its
\* own, with success = true unless its extraction failed.
C13_FetchFailureIsolated ==
  /\ fetch.process = "alive"
  /\ fetch.phase = "done" =>
       \A i \in 1..Len(fetch.documents) :
         \E k \in EntryOf(i) :
           LET p == fetch.stats.processedDocuments[k]
           IN IF fetch.promise[i] = "rejected"
              THEN ~p.success /\ p.error = "fetchFails"
              ELSE p.success \/ p.error = "extractFails"

\* the part of C13 the code keeps: a fetch that fails while its batch is
\* being awaited is recorded, and the other documents of the call succeed
C13_IsolatedInBatch ==
  /\ fetch.phase = "done"
  /\ fetch.process = "alive"
  /\ Len(fetch.documents) = 3
  /\ fetch.promise[1] = "rejected"
  /\ \A i \in 2..3 : \E k \in EntryOf(i) : fetch.stats.processedDocuments[k].success

(***************************************************************************)
(* Properties of the splitting pass (checked under SplitSpec).             *)
(***************************************************************************)
\* C17: after the splitting pass no output chunk's estimated size
\* (ceil(1.5 * length)) exceeds the configured threshold, whatever the
\* content and the threshold; the chunks are whole sentences and, put one
\* after the other, give the sentences of the content in their order.
C17_ChunksWithinThreshold ==
  split.done =>
    /\ \A k \in 1..Len(split.documents) :
         EstimatedTokens(ContentLength(split.documents[k].content)) <= split.maxTokens
    /\ Flatten([k \in 1..Len(split.documents) |-> split.documents[k].content])
         = split.content

\* the part of C17 the code keeps: sentence boundaries and sentence order
C17_SentencesKept ==
  split.done =>
    Flatten([k \in 1..Len(split.documents) |-> split.documents[k].content])
      = split.content

(***************************************************************************)
(* Properties of the cache collection (checked under CacheSpec).           *)
(***************************************************************************)
\* the last document of the latest put (or batch put) written for an id
LastWritten(id) ==
  LET docs == collection.last.documents
      k == CHOOSE k \in 1..Len(docs) :
             docs[k].id = id /\ \A j \in (k + 1)..Len(docs) : docs[j].id # id
  IN Replacement(docs[k], collection.last.aiResults[k], collection.last.at)

\* C20: after any sequence of cacheDocument, batchCacheDocuments,
\* updateAIResults and removeDocumentCache there is at most one entry per
\* document id; and right after cacheDocument or batchCacheDocuments the
\* entry of each written id is exactly the entry built from the written
\* document, with nothing left of the entry it replaced.
C20_PutReplaces ==
  /\ \A id \in {DocId(d) : d \in Docs} :
       Cardinality(Matching(collection.entries, id)) <= 1
  /\ \A k \in 1..Len(collection.last.documents) :
       LET id == collection.last.documents[k].id
       IN \E j \in Matching(collection.entries, id) :
            collection.entries[j] = LastWritten(id)

\* d1 was cached, its AI results were updated, and it is cached again
\* with blank AI results: the entry holds the blank results
C20_Witness ==
  /\ collection.ops = 3
  /\ collection.last.op = "cacheDocument"
  /\ collection.last.documents[1].id = DocId("d1")
  /\ collection.last.aiResults[1].kind = "blank"
  /\ Len(collection.entries) = 1
  /\ collection.entries[1].entry.aiResults.kind = "blank"
  /\ collection.entries[1].entry.updatedAt = 2

\* C22: batchCacheDocuments given a batch with a malformed item does not
\* fail as a whole: it returns, and every well-formed item of the batch has
\* its entry in the collection afterwards.
C22_MalformedEntrySkipped ==
  collection.last.op = "batchCacheDocuments" =>
    /\ ~collection.last.threw
    /\ \A k \in 1..Len(collection.last.batch) :
         WellFormed(collection.last.batch[k]) =>
           Matching(collection.entries, collection.last.batch[k].document.id) # {}

(***************************************************************************)
(* Properties of Enrichment after an edit (checked under ReuseSpec).       *)
(***************************************************************************)
\* the input document at position i of exec has another content than the
\* document of the same id that the Indexing `writer` cached
ChangedSince(exec, i, writer) ==
  \E j \in 1..Len(writer.documents) :
    /\ writer.documents[j].id = exec.input[i].id
    /\ ToCache(writer.documents[j])
    /\ writer.documents[j].content # exec.input[i].content

\* C24: an Enrichment without forceReprocess reuses cached AI fields only
\* for a document whose content is the one its cache entry was written for;
\* for a document whose content changed since, the AI is called again.
C24_ChangedContentReprocessed ==
  (/\ lastExec.stage = "clean" /\ ~lastExec.force /\ ~lastExec.threw
   /\ prevExec.stage = "upload" /\ prevExec.up) =>
    \A i \in 1..Len(lastExec.input) :
      ChangedSince(lastExec, i, prevExec) => lastExec.input[i].id \in lastExec.called

\* the reuse the code does make: a document of unchanged content whose AI
\* results are cached is served from the cache
C24_UnchangedReused ==
  /\ lastExec.stage = "clean" /\ ~lastExec.force /\ lastExec.up
  /\ prevExec.stage = "upload" /\ prevExec.up
  /\ Len(lastExec.input) = 1
  /\ ~ChangedSince(lastExec, 1, prevExec)
  /\ lastExec.result.stats.cachedDocuments = 1

(***************************************************************************)
(* Properties of the windowed calls (checked under WindowSpec).            *)
(***************************************************************************)
\* a completion order in which a later call of a window answered first
OutOfOrder(order) ==
  \E a, b \in 1..Len(order) : a < b /\ order[a] > order[b]

\* C26: for every completion order of the concurrent calls inside a window,
\* each result is attributed to the document that originated the call: the
\* content recorded for a document in Collection is the one fetched for that
\* document, with that fetch's outcome, and the embedding attached to a
\* document in Indexing is the one computed from that document's content
\* (the zero vector exactly when its own request failed).
C26_ResultsAttributed ==
  /\ \A k \in 1..Len(fetch.contents) :
       /\ fetch.contents[k].documentId = fetch.documents[k].id
       /\ fetch.contents[k].status = fetch.promise[k]
       /\ fetch.contents[k].value = SourceContent(k)
       /\ fetch.stats.processedDocuments[k].document.id = fetch.documents[k].id
       /\ fetch.promise[k] = "rejected" => ~fetch.stats.processedDocuments[k].success
  /\ embed.phase = "done" =>
       /\ Len(embed.documentsWithEmbeddings) = Len(embed.textsToEmbed)
       /\ \A k \in 1..Len(embed.documentsWithEmbeddings) :
            LET document == embed.documentsWithEmbeddings[k]
            IN /\ document.id = embed.textsToEmbed[k].id
               /\ document.content = embed.textsToEmbed[k].content
               /\ embed.promise[k] = "ok" => document.embedding = Embedding(document.content)
               /\ embed.promise[k] = "fails" => document.embedding = ZeroVector

\* both calls have returned after windows whose calls answered out of order
C26_Witness ==
  /\ fetch.phase = "done" /\ Len(fetch.contents) = MaxFetch
  /\ OutOfOrder(fetch.order)
  /\ \A k \in 1..Len(fetch.contents) : fetch.contents[k].status = "fulfilled"
  /\ embed.phase = "done" /\ Len(embed.documentsWithEmbeddings) = MaxEmbed
  /\ OutOfOrder(embed.order)
  /\ \E k \in 1..MaxEmbed : embed.promise[k] = "ok"
  /\ \E k \in 1..MaxEmbed : embed.promise[k] = "fails"

(***************************************************************************)
(* Properties of initialize (checked under InitSpec).                      *)
(***************************************************************************)
\* a collaborator of stage s failed to initialize
CollaboratorFailed(s) ==
  \E k \in 1..Len(lifecycle.done[s]) : lifecycle.done[s][k] = "fails"

\* C27: initialization is all-or-nothing: a stage's initialize rejects
\* whenever one of its collaborators fails to initialize, the orchestrator's
\* initialize rejects with a stage's error whenever a stage's initialize
\* rejects, and it resolves only if every collaborator of every stage
\* initialized.
C27_InitializeAllOrNothing ==
  /\ \A s \in StageNames :
       CollaboratorFailed(s) =>
         /\ lifecycle.stage[s] = "rejected"
         /\ lifecycle.stageError[s].stage = s
  /\ (\E s \in StageNames : lifecycle.stage[s] = "rejected") =>
       /\ lifecycle.phase = "rejected"
       /\ \E s \in StageNames :
            /\ lifecycle.stage[s] = "rejected"
            /\ lifecycle.error = lifecycle.stageError[s]
  /\ lifecycle.phase = "resolved" =>
       \A s \in StageNames :
         /\ Len(lifecycle.done[s]) = Len(Collaborators(s))
         /\ ~CollaboratorFailed(s)

\* initialize has rejected with the error of the stage that failed first,
\* while another stage failed later and the third one initialized
C27_Witness ==
  /\ lifecycle.phase = "rejected"
  /\ lifecycle.error = [stage |-> "upload", collaborator |-> "elasticsearch"]
  /\ lifecycle.stage["clean"] = "rejected"
  /\ lifecycle.stage["clone"] = "resolved"

\* initialize has resolved: every collaborator of every stage initialized
C27_Resolved ==
  /\ lifecycle.phase = "resolved"
  /\ \A s \in StageNames : lifecycle.stage[s] = "resolved"

(***************************************************************************)
(* Properties of an orchestrator used again (checked under RerunSpec).     *)
(***************************************************************************)
\* C28: cleanup never throws: when the connection release of any stage
\* fails, the failure is only logged, the cleanup of the other stages still
\* runs, and afterwards the execution state is zeroed (isRunning false,
\* currentStage and startTime null, stage results and statistics empty).
C28_CleanupNeverThrows ==
  [][(lifecycle.cleanup = "idle" /\ lifecycle'.cleanup # "idle") =>
       /\ lifecycle'.cleanup = "resolved"
       /\ \A s \in StageNames : lifecycle'.closed[s] \in {"closed", "failed"}
       /\ ~executionState'.isRunning
       /\ executionState'.currentStage = "null"
       /\ executionState'.startTime = Undefined
       /\ executionState'.stageResults = EmptyResults
       /\ executionState'.overallStats = EmptyResults]_vars

\* cleanup has returned after a run that left stage results, the connection
\* of one stage having failed to close, and the state is zeroed
C28_Witness ==
  /\ lifecycle.cleanup = "resolved"
  /\ runs = 1
  /\ pc = "resolved"
  /\ DOMAIN outcome.result.stages = StageNames
  /\ lifecycle.closed["clone"] = "failed"
  /\ lifecycle.closed["clean"] = "closed"
  /\ lifecycle.closed["upload"] = "closed"
  /\ executionState.stageResults = EmptyResults
  /\ executionState.currentStage = "null"

\* the stages started so far in the current run
StartedStages == {started[i] : i \in 1..Len(started)}

\* C29: the execution state is reset at the start of every executePipeline
\* run: once a later run has begun, the stage results, the current-stage
\* name and the aggregated statistics in the execution state all come from
\* that run, whether it later succeeds or fails.
C29_StateResetAtRunStart ==
  runs > MaxRuns =>
    /\ DOMAIN executionState.stageResults \subseteq StartedStages
    /\ executionState.currentStage \in {"null"} \cup StartedStages
    /\ executionState.overallStats \in
         {EmptyResults, calculateOverallStats(executionState.stageResults)}

\* the part of the reset the code performs: the stage results of an earlier
\* run are gone once a later run has begun
C29_StageResultsReset ==
  runs > MaxRuns => DOMAIN executionState.stageResults \subseteq StartedStages

(***************************************************************************)
(* Properties of skipStages (checked under Spec).                          *)
(***************************************************************************)
\* the stages of the usual order that the options do not skip
Unskipped == SelectSeq(StageOrder, LAMBDA s : s \notin options.skipStages)

IsPrefix(a, b) ==
  /\ Len(a) <= Len(b)
  /\ \A i \in 1..Len(a) : a[i] = b[i]

\* C30: a stage named in skipStages is never executed in that run and has no
\* entry in the result's stages, while the stages not named are executed in
\* the usual order: all of them in a run that returns its result, those up
\* to the failing stage in a run that is rejected.
C30_SkippedStagesNotExecuted ==
  runs > 0 =>
    /\ \A s \in options.skipStages :
         /\ s \notin StartedStages
         /\ s \notin DOMAIN runExec
         /\ s \notin DOMAIN executionState.stageResults
    /\ IsPrefix(started, Unskipped)
    /\ pc = "resolved" =>
         /\ started = Unskipped
         /\ DOMAIN runExec = StageNames \ options.skipStages
         /\ DOMAIN outcome.result.stages = StageNames \ options.skipStages

\* a run that skipped the clean stage has returned its result
C30_Witness ==
  /\ pc = "resolved"
  /\ options.skipStages = {"clean"}
  /\ started = <<"clone", "upload">>
  /\ DOMAIN outcome.result.stages = {"clone", "upload"}
  /\ DOMAIN runExec = {"clone", "upload"}

(***************************************************************************)
(* Properties of calculateOverallStats (checked under StatsSpec).          *)
(***************************************************************************)
\* the successful stages that report `rate`
Reporting(rate) ==
  {n \in DOMAIN StageResults :
     /\ StageResults[n].success
     /\ StageResults[n].hasStats
     /\ rate \in DOMAIN StageResults[n].stats}

OverallRates == {"cacheHitRate", "aiProcessingRate", "indexingSuccessRate"}

\* the largest totalDocuments of a successful stage
LargestTotal ==
  LET totals == {StageResults[n].stats.totalDocuments :
                   n \in {m \in DOMAIN StageResults : StageResults[m].success}} \cup {0}
  IN CHOOSE t \in totals : \A u \in totals : u <= t

\* the overall totalDocuments is the maximum over the successful stages
C31_TotalIsMaximum ==
  executionState.overallStats # EmptyResults =>
    executionState.overallStats.totalDocuments = LargestTotal

\* C31: the overall totalDocuments is the maximum totalDocuments over the
\* successful stages, and when exactly one stage reports a given rate the
\* overall value of that rate equals the value that stage reported,
\* whatever the stages' totals are (stated for a reporting stage that
\* counted at least one document).
C31_SingleRateKept ==
  executionState.overallStats # EmptyResults =>
    /\ executionState.overallStats.totalDocuments = LargestTotal
    /\ \A rate \in OverallRates :
         Cardinality(Reporting(rate)) = 1 =>
           \A n \in Reporting(rate) :
             StageResults[n].stats.totalDocuments > 0 =>
             FracEq(executionState.overallStats[rate], StageResults[n].stats[rate])

\* C39: every rate in the pipeline's overall statistics (cacheHitRate,
\* aiProcessingRate, indexingSuccessRate) lies between 0 and 1 inclusive,
\* for every combination of stage results in which each stage's own rates
\* lie between 0 and 1.
C39_OverallRatesWithinUnit ==
  executionState.overallStats # EmptyResults =>
    \A rate \in OverallRates :
      /\ FracLeq(Zero, executionState.overallStats[rate])
      /\ FracLeq(executionState.overallStats[rate], One)

\* the rates only one stage reports stay within 0 and 1
C39_SingleRatesWithinUnit ==
  executionState.overallStats # EmptyResults =>
    \A rate \in {"aiProcessingRate", "indexingSuccessRate"} :
      /\ FracLeq(Zero, executionState.overallStats[rate])
      /\ FracLeq(executionState.overallStats[rate], One)

(***************************************************************************)
(* Properties of the AI requests (checked under RetrySpec).                *)
(***************************************************************************)
\* every delay is longer than the one before it
Increasing(delays) ==
  \A k \in 1..(Len(delays) - 1) : delays[k + 1] > delays[k]

\* C32: both AI collaborator operations, text generation and embedding, are
\* retried on failure with an exponentially increasing delay between
\* attempts and a bounded number of attempts, after which the last error is
\* raised to the caller; a success on any attempt ends the retries.
C32_RetriedWithBackoff ==
  /\ retry.attempt <= MaxRetries + 1
  /\ Increasing(retry.delays)
  /\ retry.phase = "rejected" =>
       /\ Len(retry.errors) = retry.attempt
       /\ retry.raised = retry.errors[Len(retry.errors)]
  /\ retry.phase = "resolved" => Len(retry.errors) = retry.attempt - 1

\* what holds of both operations: the attempts are bounded, the last error
\* is the one raised, and a success ends the retries
C32_BoundedAttempts ==
  /\ retry.attempt <= MaxRetries + 1
  /\ retry.operation = "makeRequest" =>
       /\ retry.attempt <= MaxRetries
       /\ Increasing(retry.delays)
  /\ retry.phase = "rejected" =>
       /\ Len(retry.errors) = retry.attempt
       /\ retry.raised = retry.errors[Len(retry.errors)]
  /\ retry.phase = "resolved" => Len(retry.errors) = retry.attempt - 1

(***************************************************************************)
(* Properties of Indexing's embedding requests (checked under              *)
(* IndexingSpec).                                                          *)
(***************************************************************************)
\* the embedding requests that have been made and have not answered
InFlightEmbeddings ==
  {i \in 1..Len(embed.promise) : embed.promise[i] = "pending"}

C33_EmbeddingsWithinConfigured ==
  Cardinality(InFlightEmbeddings) <= MaxConcurrent

(***************************************************************************)
(* Properties of overlapping executePipeline calls, checked under          *)
(* OverlapSpec.                                                            *)
(***************************************************************************)
InProgress(c) == overlap.call[c].pc = "running"

\* what the stage executions of call c alone report
OwnStages(c) ==
  [n \in StageNames |->
     [success |-> TRUE, totalDocuments |-> FolderDocuments[c],
      processed |-> FolderDocuments[c]]]

\* C36: isRunning is true exactly while an executePipeline call is in
\* progress: false before the first run, false again once executePipeline
\* has resolved or rejected (the rejection for empty folderTokens included,
\* which comes before any stage's execute is called).
C36_RunningWhileInProgress ==
  overlap.isRunning <=> (\E c \in Calls : InProgress(c))

\* the same for calls that do not overlap, in the runs of Spec
C36_RunningWhileOneCall ==
  executionState.isRunning <=> (pc = "running")

\* the rejection for empty folderTokens comes before any stage executes
C36_RejectedBeforeStages ==
  \A c \in Calls :
    overlap.call[c].pc = "rejected" => overlap.call[c].stage = 0

\* C40: two overlapping executePipeline calls on the same orchestrator do
\* not interfere: the stages and statistics each call returns reflect only
\* the stage executions of that call, under every interleaving.
C40_CallsDoNotInterfere ==
  \A c \in Calls :
    overlap.call[c].pc = "resolved" => overlap.call[c].stages = OwnStages(c)

\* a call that runs with no other call in progress returns its own stages
C40_AloneReturnsOwn ==
  \A c \in Calls :
    (/\ overlap.call[c].pc = "resolved"
     /\ \A d \in Calls \ {c} : overlap.call[d].pc = "idle")
      => overlap.call[c].stages = OwnStages(c)

====
